---- MODULE Spec2Model ----
(***************************************************************************)
(* State-machine model of spark-note-core: the note registry (NoteManager), *)
(* the typed spent set (NullifierSet), the legacy byte-vector spent set     *)
(* (HashSet<Vec<u8>>), its JSON export and import, a note in the hands of   *)
(* its holder, the memory of Secret values, the binding surfaces, and the   *)
(* pure functions all of these are built on.                                *)
(***************************************************************************)
EXTENDS Integers, Sequences, FiniteSets, TLC

(***************************************************************************)
(* Bounds of the model.                                                     *)
(***************************************************************************)
MaxFill == 1          \* raw nullifiers are [b; 32], b up to MaxFill
MaxBatch == 3         \* longest batch given to mark_multiple_as_spent
NumSpenders == 2      \* concurrent spenders sharing one spent set

(***************************************************************************)
(* Program constants (validation.rs).                                       *)
(***************************************************************************)
MIN_SECRET_LENGTH == 8
MAX_SECRET_LENGTH == 1024
NULLIFIER_LENGTH == 32

VARIABLES
    notes,             \* NoteManager.notes : HashMap<String, InternalNoteEntry>
    spent_nullifiers,  \* NoteManager.spent_nullifiers : NullifierSet
    spent_set,         \* a caller-owned legacy HashSet<Vec<u8>>
    ret,               \* the last call: operation, arguments, result
    ever_spent,        \* history: the identifiers whose entry has been Spent
    ok_spends,         \* history: the spends on the manager that returned Ok
    pc,                \* per concurrent spender: position inside its call
    call,              \* per concurrent spender: the call it makes
    borrow,            \* per shared object: the spender holding `&mut` (0: none)
    held,              \* the SparkNote a caller holds, if any
    heap               \* the byte buffers Secret values own or have handed out

vars == <<notes, spent_nullifiers, spent_set, ret, ever_spent, ok_spends, pc, call, borrow, held, heap>>

(***************************************************************************)
(* Byte vectors.                                                            *)
(***************************************************************************)
\* vec![b; len]
Fill(b, len) == [i \in 1..len |-> b]

\* to_be_bytes that keeps the low byte of the number only
to_be_bytes_low(v) == [i \in 1..8 |-> IF i < 8 THEN 0 ELSE v % 256]

\* u64::to_be_bytes (model values stay below 2^31, so the top four bytes are 0)
to_be_bytes(v) == [i \in 1..8 |-> IF i <= 4 THEN 0 ELSE (v \div (256 ^ (8 - i))) % 256]

\* b"SPARK_COMMITMENT_V1"
DOMAIN_TAG == <<83, 80, 65, 82, 75, 95, 67, 79, 77, 77, 73, 84, 77, 69, 78, 84, 95, 86, 49>>

(***************************************************************************)
(* The two hash functions.  Each is a deterministic map from a byte string  *)
(* to 32 bytes; the model uses a polynomial fingerprint of the whole input  *)
(* (every byte and the length count), with different parameters for the two *)
(* functions.                                                               *)
(***************************************************************************)
\* the bytes lo..hi absorbed in order: the first half, then the second half
\* from the state the first half left (the halving keeps the nesting depth
\* small for the longest secrets)
RECURSIVE AbsorbRange(_, _, _, _, _)
AbsorbRange(m, lo, hi, h, mult) ==
    IF lo > hi THEN h
    ELSE IF lo = hi THEN (h * mult + m[lo] + 1) % 65521
    ELSE CHOOSE out \in
             {AbsorbRange(m, mid + 1, hi, first, mult) :
                  <<mid, first>> \in
                      {<<(lo + hi) \div 2,
                         AbsorbRange(m, lo, (lo + hi) \div 2, h, mult)>>}} : TRUE

Absorb(m, i, h, mult) == AbsorbRange(m, i, Len(m), h, mult)

Finalize(h, pad) ==
    [i \in 1..32 |-> IF i = 1 THEN h % 256
                     ELSE IF i = 2 THEN (h \div 256) % 256
                     ELSE pad]

Sha256(m) == Finalize(Absorb(m, 1, 7, 31), 200)

Blake3(m) == Finalize(Absorb(m, 1, 11, 37), 100)

(***************************************************************************)
(* Results (error.rs).                                                      *)
(***************************************************************************)
Ok == [kind |-> "Ok", code |-> "None"]
OperationError == [kind |-> "OperationError", code |-> "None"]
nullifier_error(code) == [kind |-> "NullifierError", code |-> code]
invalid_secret(code) == [kind |-> "InvalidSecret", code |-> code]
invalid_value(code) == [kind |-> "InvalidValue", code |-> code]
AlreadySpent == nullifier_error("AlreadySpent")

(***************************************************************************)
(* validation.rs                                                            *)
(***************************************************************************)
\* validate_secret that refuses a secret of MAX_SECRET_LENGTH bytes (>= for >)
validate_secret_exclusive(secret) ==
    IF Len(secret) = 0 THEN invalid_secret("Empty")
    ELSE IF Len(secret) < MIN_SECRET_LENGTH THEN invalid_secret("TooShort")
    ELSE IF Len(secret) >= MAX_SECRET_LENGTH THEN invalid_secret("TooLong")
    ELSE Ok

validate_secret(secret) ==
    IF Len(secret) = 0 THEN invalid_secret("Empty")
    ELSE IF Len(secret) < MIN_SECRET_LENGTH THEN invalid_secret("TooShort")
    ELSE IF Len(secret) > MAX_SECRET_LENGTH THEN invalid_secret("TooLong")
    ELSE Ok

validate_value(value) ==
    IF value = 0 THEN invalid_value("Zero") ELSE Ok

validate_nullifier(nullifier) ==
    IF Len(nullifier) = 0 THEN nullifier_error("Empty")
    ELSE IF Len(nullifier) # NULLIFIER_LENGTH THEN nullifier_error("WrongLength")
    ELSE Ok

(***************************************************************************)
(* note.rs                                                                  *)
(***************************************************************************)
\* what the four hasher.update calls of compute_commitment feed the hasher
hasher_input(value, secret) ==
    DOMAIN_TAG \o to_be_bytes(value) \o to_be_bytes(Len(secret)) \o secret

compute_commitment(value, secret) == Sha256(hasher_input(value, secret))

NoNote == [value |-> 0, commitment |-> << >>, secret |-> << >>]

\* create_note that validates the secret before the value
create_note_secret_first(value, secret) ==
    IF validate_secret(secret) # Ok
    THEN [res |-> validate_secret(secret), note |-> NoNote]
    ELSE IF validate_value(value) # Ok
    THEN [res |-> validate_value(value), note |-> NoNote]
    ELSE [res |-> Ok,
          note |-> [value |-> value,
                    commitment |-> compute_commitment(value, secret),
                    secret |-> secret]]

\* SparkNote::new / create_note: [res, note]
create_note(value, secret) ==
    IF validate_value(value) # Ok
    THEN [res |-> validate_value(value), note |-> NoNote]
    ELSE IF validate_secret(secret) # Ok
    THEN [res |-> validate_secret(secret), note |-> NoNote]
    ELSE [res |-> Ok,
          note |-> [value |-> value,
                    commitment |-> compute_commitment(value, secret),
                    secret |-> secret]]

(***************************************************************************)
(* Notes and secrets the callers draw from.                                 *)
(***************************************************************************)
Ids == {"a", "b"}

Values == {0, 1}

\* the secrets notes are created with, and the secrets offered when a
\* nullifier is generated (the note's own and another one)
NoteSecrets == {Fill(1, MIN_SECRET_LENGTH)}

SecretInputs == {Fill(1, MIN_SECRET_LENGTH), Fill(2, MIN_SECRET_LENGTH)}

\* the notes a caller can hold: only create_note builds a SparkNote
NoteInputs ==
    {create_note(v, s).note : <<v, s>> \in {x \in Values \X NoteSecrets :
                                              create_note(x[1], x[2]).res = Ok}}

(***************************************************************************)
(* nullifier_type.rs, nullifier.rs                                          *)
(***************************************************************************)
\* from_slice that takes the first 32 bytes of a longer slice
from_slice_truncating(slice) ==
    IF Len(slice) = 0 THEN [res |-> nullifier_error("Empty"), n |-> << >>]
    ELSE IF Len(slice) < NULLIFIER_LENGTH
    THEN [res |-> nullifier_error("WrongLength"), n |-> << >>]
    ELSE [res |-> Ok, n |-> [i \in 1..NULLIFIER_LENGTH |-> slice[i]]]

\* Nullifier::from_slice: [res, n]
from_slice(slice) ==
    IF validate_nullifier(slice) # Ok
    THEN [res |-> validate_nullifier(slice), n |-> << >>]
    ELSE [res |-> Ok, n |-> [i \in 1..NULLIFIER_LENGTH |-> slice[i]]]

\* BLAKE3(commitment || secret)
generate_nullifier(note, secret) == Blake3(note.commitment \o secret)

(***************************************************************************)
(* NullifierSet (nullifier.rs): a HashSet<Nullifier>.                       *)
(***************************************************************************)
\* add that reports a new insertion although the value was a member
NullifierSet_add_reports_new(set, nullifier) ==
    [set |-> set \cup {nullifier}, val |-> TRUE]

\* NullifierSet::add is HashSet::insert: [set, val]
NullifierSet_add(set, nullifier) ==
    [set |-> set \cup {nullifier}, val |-> nullifier \notin set]

NullifierSet_contains(set, nullifier) == nullifier \in set

NullifierSet_contains_slice(set, slice) ==
    IF from_slice(slice).res = Ok
    THEN NullifierSet_contains(set, from_slice(slice).n)
    ELSE FALSE

NullifierSet_len(set) == Cardinality(set)

(***************************************************************************)
(* Legacy API over HashSet<Vec<u8>> (nullifier.rs).                         *)
(***************************************************************************)
is_nullifier_spent(nullifier, set) ==
    IF from_slice(nullifier).res = Ok THEN nullifier \in set ELSE FALSE

check_multiple_nullifiers(nullifiers, set) ==
    [i \in 1..Len(nullifiers) |-> is_nullifier_spent(nullifiers[i], set)]

\* [set, res]
mark_as_spent(nullifier, set) ==
    IF validate_nullifier(nullifier) # Ok
    THEN [set |-> set, res |-> validate_nullifier(nullifier)]
    ELSE IF nullifier \in set
    THEN [set |-> set, res |-> AlreadySpent]
    ELSE [set |-> set \cup {nullifier}, res |-> Ok]

\* the loop when it skips an element that is spent already and goes on
RECURSIVE mark_multiple_loop_skipping(_, _, _)
mark_multiple_loop_skipping(nullifiers, i, set) ==
    IF i > Len(nullifiers) THEN [set |-> set, res |-> Ok]
    ELSE IF validate_nullifier(nullifiers[i]) # Ok
    THEN [set |-> set, res |-> validate_nullifier(nullifiers[i])]
    ELSE IF nullifiers[i] \in set
    THEN [set |-> mark_multiple_loop_skipping(nullifiers, i + 1, set).set,
          res |-> AlreadySpent]
    ELSE mark_multiple_loop_skipping(nullifiers, i + 1, set \cup {nullifiers[i]})

\* the loop without the membership check
RECURSIVE mark_multiple_loop_unchecked(_, _, _)
mark_multiple_loop_unchecked(nullifiers, i, set) ==
    IF i > Len(nullifiers) THEN [set |-> set, res |-> Ok]
    ELSE IF validate_nullifier(nullifiers[i]) # Ok
    THEN [set |-> set, res |-> validate_nullifier(nullifiers[i])]
    ELSE mark_multiple_loop_unchecked(nullifiers, i + 1, set \cup {nullifiers[i]})

\* the for loop of mark_multiple_as_spent, from element i on: [set, res]
RECURSIVE mark_multiple_loop(_, _, _)
mark_multiple_loop(nullifiers, i, set) ==
    IF i > Len(nullifiers) THEN [set |-> set, res |-> Ok]
    ELSE IF validate_nullifier(nullifiers[i]) # Ok
    THEN [set |-> set, res |-> validate_nullifier(nullifiers[i])]
    ELSE IF nullifiers[i] \in set
    THEN [set |-> set, res |-> AlreadySpent]
    ELSE mark_multiple_loop(nullifiers, i + 1, set \cup {nullifiers[i]})

mark_multiple_as_spent(nullifiers, set) == mark_multiple_loop(nullifiers, 1, set)

(***************************************************************************)
(* NoteManager (manager.rs).  self is [notes, spent_nullifiers]; every      *)
(* operation yields [self, res, val].                                       *)
(***************************************************************************)
None == [some |-> FALSE, v |-> << >>]
Some(x) == [some |-> TRUE, v |-> x]

\* a projection that carries the secret along
PublicNote_with_secret(note) ==
    [value |-> note.value, commitment |-> note.commitment, secret |-> note.secret]

\* impl From<&SparkNote> for PublicNote
PublicNote(note) == [value |-> note.value, commitment |-> note.commitment]

NoteEntry(entry) ==
    [note |-> PublicNote(entry.note), state |-> entry.state, nullifier |-> entry.nullifier]

\* HashMap::insert of a key
MapInsert(map, k, v) == [x \in DOMAIN map \cup {k} |-> IF x = k THEN v ELSE map[x]]

\* HashMap::remove of a key
MapRemove(map, k) == [x \in DOMAIN map \ {k} |-> map[x]]

NoteManager_new == [notes |-> << >>, spent_nullifiers |-> {}]

\* add_note without the duplicate check: HashMap::insert replaces the entry
add_note_overwrite(self, id, note) ==
    [self |-> [self EXCEPT !.notes =
                  MapInsert(self.notes, id,
                            [note |-> note, state |-> "Unspent", nullifier |-> None])],
     res |-> Ok, val |-> None]

add_note(self, id, note) ==
    IF id \in DOMAIN self.notes
    THEN [self |-> self, res |-> OperationError, val |-> None]
    ELSE [self |-> [self EXCEPT !.notes =
                       MapInsert(self.notes, id,
                                 [note |-> note, state |-> "Unspent", nullifier |-> None])],
          res |-> Ok, val |-> None]

get_note(self, id) ==
    [self |-> self, res |-> Ok,
     val |-> IF id \in DOMAIN self.notes THEN Some(NoteEntry(self.notes[id])) ELSE None]

\* remove_note that also takes the entry's nullifier out of the spent set
remove_note_unspend(self, id) ==
    [self |-> [notes |-> MapRemove(self.notes, id),
               spent_nullifiers |->
                   IF id \in DOMAIN self.notes
                   THEN self.spent_nullifiers \ {self.notes[id].nullifier.v}
                   ELSE self.spent_nullifiers],
     res |-> Ok,
     val |-> IF id \in DOMAIN self.notes THEN Some(NoteEntry(self.notes[id])) ELSE None]

remove_note(self, id) ==
    [self |-> [self EXCEPT !.notes = MapRemove(self.notes, id)],
     res |-> Ok,
     val |-> IF id \in DOMAIN self.notes THEN Some(NoteEntry(self.notes[id])) ELSE None]

\* generate_nullifier_for_note that starts the entry over as Unspent
generate_nullifier_for_note_reset(self, id, secret) ==
    IF id \notin DOMAIN self.notes
    THEN [self |-> self, res |-> OperationError, val |-> None]
    ELSE LET nullifier == generate_nullifier(self.notes[id].note, secret)
         IN [self |-> [self EXCEPT !.notes[id].nullifier = Some(nullifier),
                                   !.notes[id].state = "Unspent"],
             res |-> Ok, val |-> Some(nullifier)]

generate_nullifier_for_note(self, id, secret) ==
    IF id \notin DOMAIN self.notes
    THEN [self |-> self, res |-> OperationError, val |-> None]
    ELSE LET nullifier == generate_nullifier(self.notes[id].note, secret)
         IN [self |-> [self EXCEPT !.notes[id].nullifier = Some(nullifier)],
             res |-> Ok, val |-> Some(nullifier)]

\* mark_note_as_spent that refuses an entry whose state is Spent already
mark_note_as_spent_once(self, id) ==
    IF id \notin DOMAIN self.notes
    THEN [self |-> self, res |-> OperationError, val |-> None]
    ELSE IF ~self.notes[id].nullifier.some \/ self.notes[id].state = "Spent"
    THEN [self |-> self, res |-> OperationError, val |-> None]
    ELSE IF NullifierSet_contains(self.spent_nullifiers, self.notes[id].nullifier.v)
    THEN [self |-> self, res |-> AlreadySpent, val |-> None]
    ELSE [self |-> [self EXCEPT
                      !.spent_nullifiers =
                          NullifierSet_add(self.spent_nullifiers,
                                           self.notes[id].nullifier.v).set,
                      !.notes[id].state = "Spent"],
          res |-> Ok, val |-> None]

\* mark_note_as_spent that sets the state before it checks the spent set
mark_note_as_spent_state_first(self, id) ==
    IF id \notin DOMAIN self.notes
    THEN [self |-> self, res |-> OperationError, val |-> None]
    ELSE IF ~self.notes[id].nullifier.some
    THEN [self |-> self, res |-> OperationError, val |-> None]
    ELSE IF NullifierSet_contains(self.spent_nullifiers, self.notes[id].nullifier.v)
    THEN [self |-> [self EXCEPT !.notes[id].state = "Spent"],
          res |-> AlreadySpent, val |-> None]
    ELSE [self |-> [self EXCEPT
                      !.spent_nullifiers =
                          NullifierSet_add(self.spent_nullifiers,
                                           self.notes[id].nullifier.v).set,
                      !.notes[id].state = "Spent"],
          res |-> Ok, val |-> None]

mark_note_as_spent(self, id) ==
    IF id \notin DOMAIN self.notes
    THEN [self |-> self, res |-> OperationError, val |-> None]
    ELSE IF ~self.notes[id].nullifier.some
    THEN [self |-> self, res |-> OperationError, val |-> None]
    ELSE LET conv == from_slice(self.notes[id].nullifier.v)
         IN IF conv.res # Ok
            THEN [self |-> self, res |-> conv.res, val |-> None]
            ELSE IF NullifierSet_contains(self.spent_nullifiers, conv.n)
            THEN [self |-> self, res |-> AlreadySpent, val |-> None]
            ELSE [self |-> [self EXCEPT
                              !.spent_nullifiers =
                                  NullifierSet_add(self.spent_nullifiers, conv.n).set,
                              !.notes[id].state = "Spent"],
                  res |-> Ok, val |-> None]

\* add_spent_nullifier without the membership check
add_spent_nullifier_unchecked(self, nullifier) ==
    LET conv == from_slice(nullifier)
    IN IF conv.res # Ok
       THEN [self |-> self, res |-> conv.res, val |-> None]
       ELSE [self |-> [self EXCEPT !.spent_nullifiers =
                          NullifierSet_add(self.spent_nullifiers, conv.n).set],
             res |-> Ok, val |-> None]

add_spent_nullifier(self, nullifier) ==
    LET conv == from_slice(nullifier)
    IN IF conv.res # Ok
       THEN [self |-> self, res |-> conv.res, val |-> None]
       ELSE IF NullifierSet_contains(self.spent_nullifiers, conv.n)
       THEN [self |-> self, res |-> AlreadySpent, val |-> None]
       ELSE [self |-> [self EXCEPT !.spent_nullifiers =
                          NullifierSet_add(self.spent_nullifiers, conv.n).set],
             res |-> Ok, val |-> None]

NoteManager_is_nullifier_spent(self, nullifier) ==
    [self |-> self, res |-> Ok,
     val |-> NullifierSet_contains_slice(self.spent_nullifiers, nullifier)]

spent_nullifier_count(self) ==
    [self |-> self, res |-> Ok, val |-> NullifierSet_len(self.spent_nullifiers)]

(***************************************************************************)
(* More inputs the callers draw from.                                       *)
(***************************************************************************)
\* byte vectors offered as nullifiers: right and wrong lengths, and the
\* nullifiers of the notes themselves
RawNullifiers == {Fill(b, NULLIFIER_LENGTH) : b \in 1..MaxFill}

BadNullifiers == {<< >>, Fill(1, NULLIFIER_LENGTH - 1)}

NoteNullifiers == {generate_nullifier(n, n.secret) : n \in NoteInputs}

NullifierInputs == RawNullifiers \cup BadNullifiers \cup NoteNullifiers

\* what mark_as_spent is given: a note's nullifier, or a malformed one
LegacyInputs == NoteNullifiers \cup BadNullifiers

\* what the elements of a batch are drawn from
BatchInputs == LegacyInputs \cup RawNullifiers

Spenders == 1..NumSpenders

(***************************************************************************)
(* Initial state: NoteManager::new(), an empty legacy set, no call made.    *)
(***************************************************************************)
NoCall == [op |-> "none", arg |-> << >>, res |-> Ok, val |-> None]

Init ==
    /\ notes = NoteManager_new.notes
    /\ spent_nullifiers = NoteManager_new.spent_nullifiers
    /\ spent_set = {}
    /\ ret = NoCall
    /\ ever_spent = {}
    /\ ok_spends = 0
    /\ pc = [p \in Spenders |-> "idle"]
    /\ call = [p \in Spenders |-> NoCall]
    /\ borrow = [o \in {"manager", "spent_set"} |-> 0]
    /\ held = None
    /\ heap = << >>

\* the identifiers of the entries in state Spent
SpentIds(map) == {id \in DOMAIN map : map[id].state = "Spent"}

self == [notes |-> notes, spent_nullifiers |-> spent_nullifiers]

\* a call on the manager: the state it leaves and what the caller gets
ManagerCall(op, arg, r) ==
    /\ notes' = r.self.notes
    /\ spent_nullifiers' = r.self.spent_nullifiers
    /\ ret' = [op |-> op, arg |-> arg, res |-> r.res, val |-> r.val]
    /\ ever_spent' = ever_spent \cup SpentIds(r.self.notes)
    /\ ok_spends' = IF op \in {"mark_note_as_spent", "add_spent_nullifier"} /\ r.res = Ok
                    THEN ok_spends + 1
                    ELSE ok_spends
    /\ UNCHANGED <<spent_set, pc, call, borrow, held, heap>>

\* a call of the legacy API on the caller's set
LegacyCall(op, arg, set, res, val) ==
    /\ spent_set' = set
    /\ ret' = [op |-> op, arg |-> arg, res |-> res, val |-> val]
    /\ UNCHANGED <<notes, spent_nullifiers, ever_spent, ok_spends, pc, call, borrow, held, heap>>

AddNote ==
    \E id \in Ids, note \in NoteInputs :
        ManagerCall("add_note", <<id, note>>, add_note(self, id, note))


RemoveNote ==
    \E id \in Ids : ManagerCall("remove_note", <<id>>, remove_note(self, id))

GenerateNullifierForNote ==
    \E id \in Ids, secret \in SecretInputs :
        ManagerCall("generate_nullifier_for_note", <<id, secret>>,
                    generate_nullifier_for_note(self, id, secret))

MarkNoteAsSpent ==
    \E id \in Ids :
        ManagerCall("mark_note_as_spent", <<id>>, mark_note_as_spent(self, id))

AddSpentNullifier ==
    \E n \in NullifierInputs :
        ManagerCall("add_spent_nullifier", <<n>>, add_spent_nullifier(self, n))



MarkAsSpent ==
    \E n \in LegacyInputs :
        LET r == mark_as_spent(n, spent_set)
        IN LegacyCall("mark_as_spent", <<n>>, r.set, r.res, None)


\* every batch of at most MaxBatch byte vectors
Batches == UNION {[1..k -> BatchInputs] : k \in 0..MaxBatch}

MarkMultipleAsSpent ==
    \E batch \in Batches :
        LET r == mark_multiple_as_spent(batch, spent_set)
        IN LegacyCall("mark_multiple_as_spent", batch, r.set, r.res, None)

Next ==
    \/ AddNote
    \/ RemoveNote
    \/ GenerateNullifierForNote
    \/ MarkNoteAsSpent
    \/ AddSpentNullifier
    \/ MarkAsSpent

Spec == Init /\ [][Next]_vars

\* the legacy API alone, on one caller-owned set
NextLegacy ==
    \/ MarkAsSpent
    \/ MarkMultipleAsSpent

SpecLegacy == Init /\ [][NextLegacy]_vars

(***************************************************************************)
(* A NullifierSet used on its own (nullifier.rs): spent_nullifiers is the   *)
(* set, starting from NullifierSet::new().                                  *)
(***************************************************************************)
\* the values of type Nullifier the callers hold
TypedNullifiers ==
    {Fill(b, NULLIFIER_LENGTH) : b \in 0..MaxFill}
        \cup {generate_nullifier(n, s) : n \in NoteInputs, s \in SecretInputs}

\* NullifierSet::export: the members, in the order the HashSet yields them
NullifierSet_export(set) ==
    {f \in [1..Cardinality(set) -> set] : \A x \in set : \E i \in DOMAIN f : f[i] = x}

SetCall(op, arg, set, val) ==
    /\ spent_nullifiers' = set
    /\ ret' = [op |-> op, arg |-> arg, res |-> Ok, val |-> val]
    /\ UNCHANGED <<notes, spent_set, ever_spent, ok_spends, pc, call, borrow, held, heap>>

SetAdd ==
    \E n \in TypedNullifiers :
        LET r == NullifierSet_add(spent_nullifiers, n)
        IN SetCall("NullifierSet_add", <<n>>, r.set, r.val)

SetContains ==
    \E n \in TypedNullifiers :
        SetCall("NullifierSet_contains", <<n>>, spent_nullifiers,
                NullifierSet_contains(spent_nullifiers, n))

SetContainsSlice ==
    \E slice \in NullifierInputs :
        SetCall("NullifierSet_contains_slice", <<slice>>, spent_nullifiers,
                NullifierSet_contains_slice(spent_nullifiers, slice))

SetLen ==
    SetCall("NullifierSet_len", << >>, spent_nullifiers, NullifierSet_len(spent_nullifiers))

SetExport ==
    \E out \in NullifierSet_export(spent_nullifiers) :
        SetCall("NullifierSet_export", << >>, spent_nullifiers, out)

NextSet ==
    \/ SetAdd
    \/ SetContains
    \/ SetContainsSlice
    \/ SetLen
    \/ SetExport

SpecSet == Init /\ [][NextSet]_vars

(***************************************************************************)
(* Concurrent spenders.  Each spender makes one call that spends on a       *)
(* shared object: mark_as_spent on the legacy set, add_spent_nullifier or   *)
(* mark_note_as_spent on the manager.  A call runs in steps: it enters      *)
(* (taking the object by `&mut`), validates, checks membership, inserts.    *)
(***************************************************************************)
\* the object a spending call borrows mutably
Object(op) == IF op = "mark_as_spent" THEN "spent_set" ELSE "manager"

\* a shared borrow: a call enters while another call holds the object
SharedBorrow(object) == borrow[object] \in {0} \cup Spenders

\* `&mut`: a call enters only while no other call holds the object

ExclusiveBorrow(object) == borrow[object] = 0

\* the part of a spending call before its membership check: [res, n]
BeforeCheck(op, arg) ==
    IF op = "mark_as_spent"
    THEN [res |-> validate_nullifier(arg), n |-> arg]
    ELSE IF op = "add_spent_nullifier"
    THEN from_slice(arg)
    ELSE IF arg \notin DOMAIN notes
    THEN [res |-> OperationError, n |-> << >>]
    ELSE IF ~notes[arg].nullifier.some
    THEN [res |-> OperationError, n |-> << >>]
    ELSE from_slice(notes[arg].nullifier.v)

\* the members of the set a spending call works on
Members(op) == IF op = "mark_as_spent" THEN spent_set ELSE spent_nullifiers

ConcurrentCalls ==
    {[op |-> "mark_as_spent", arg |-> n] : n \in NoteNullifiers \cup {<< >>}}
        \cup {[op |-> "add_spent_nullifier", arg |-> n] : n \in NoteNullifiers \cup {<< >>}}
        \cup {[op |-> "mark_note_as_spent", arg |-> id] : id \in Ids}

Return(p, res) ==
    /\ pc' = [pc EXCEPT ![p] = "done"]
    /\ call' = [call EXCEPT ![p].res = res]

Enter(p) ==
    \E c \in ConcurrentCalls :
        /\ pc[p] = "idle"
        /\ ExclusiveBorrow(Object(c.op))
        /\ LET first == BeforeCheck(c.op, c.arg)
           IN IF first.res # Ok
              THEN /\ pc' = [pc EXCEPT ![p] = "done"]
                   /\ call' = [call EXCEPT ![p] =
                                  [op |-> c.op, arg |-> c.arg, res |-> first.res, val |-> << >>]]
                   /\ UNCHANGED borrow
              ELSE /\ pc' = [pc EXCEPT ![p] = "check"]
                   /\ call' = [call EXCEPT ![p] =
                                  [op |-> c.op, arg |-> c.arg, res |-> Ok, val |-> first.n]]
                   /\ borrow' = [borrow EXCEPT ![Object(c.op)] = p]
        /\ UNCHANGED <<notes, spent_nullifiers, spent_set, ret, ever_spent, ok_spends, held, heap>>

\* `if spent_set.contains(nullifier) { return Err(AlreadySpent) }`
Check(p) ==
    /\ pc[p] = "check"
    /\ IF call[p].val \in Members(call[p].op)
       THEN /\ Return(p, AlreadySpent)
            /\ borrow' = [borrow EXCEPT ![Object(call[p].op)] = 0]
       ELSE /\ pc' = [pc EXCEPT ![p] = "insert"]
            /\ UNCHANGED <<call, borrow>>
    /\ UNCHANGED <<notes, spent_nullifiers, spent_set, ret, ever_spent, ok_spends, held, heap>>

\* the insert, the entry's new state, and `Ok(())`
Insert(p) ==
    /\ pc[p] = "insert"
    /\ IF call[p].op = "mark_as_spent"
       THEN /\ spent_set' = spent_set \cup {call[p].val}
            /\ UNCHANGED <<notes, spent_nullifiers, ever_spent, ok_spends>>
       ELSE /\ spent_nullifiers' = NullifierSet_add(spent_nullifiers, call[p].val).set
            /\ ok_spends' = ok_spends + 1
            /\ IF call[p].op = "mark_note_as_spent"
               THEN /\ notes' = [notes EXCEPT ![call[p].arg].state = "Spent"]
                    /\ ever_spent' = ever_spent \cup {call[p].arg}
               ELSE UNCHANGED <<notes, ever_spent>>
            /\ UNCHANGED spent_set
    /\ Return(p, Ok)
    /\ borrow' = [borrow EXCEPT ![Object(call[p].op)] = 0]
    /\ UNCHANGED <<ret, held, heap>>

\* a manager in which every identifier holds the same note, each with the
\* nullifier generated from the note's own secret, as add_note and
\* generate_nullifier_for_note leave it
RECURSIVE Registered(_, _)
Registered(m, ids) ==
    IF ids = {} THEN m
    ELSE LET id == CHOOSE x \in ids : TRUE
             note == CHOOSE n \in NoteInputs : TRUE
             added == add_note(m, id, note).self
         IN Registered(generate_nullifier_for_note(added, id, note.secret).self,
                       ids \ {id})

InitConcurrent ==
    /\ notes = Registered(NoteManager_new, Ids).notes
    /\ spent_nullifiers = NoteManager_new.spent_nullifiers
    /\ spent_set = {}
    /\ ret = NoCall
    /\ ever_spent = {}
    /\ ok_spends = 0
    /\ pc = [p \in Spenders |-> "idle"]
    /\ call = [p \in Spenders |-> NoCall]
    /\ borrow = [o \in {"manager", "spent_set"} |-> 0]
    /\ held = None
    /\ heap = << >>

NextConcurrent == \E p \in Spenders : Enter(p) \/ Check(p) \/ Insert(p)

SpecConcurrent == InitConcurrent /\ [][NextConcurrent]_vars

(***************************************************************************)
(* serialization.rs: the spent set as a JSON document.  A text is the       *)
(* sequence of its JSON tokens; a token is [t, v] with t the kind of token  *)
(* and v its characters (a string's contents, a number's digits).           *)
(***************************************************************************)
CURRENT_VERSION == 1

SerializationError == [kind |-> "SerializationError", code |-> "None"]

HexDigits == <<"0", "1", "2", "3", "4", "5", "6", "7", "8", "9", "a", "b", "c", "d", "e", "f">>

UpperHexDigits == <<"0", "1", "2", "3", "4", "5", "6", "7", "8", "9", "A", "B", "C", "D", "E", "F">>

\* hex::encode: two lowercase digits per byte, high nibble first
hex_encode(bytes) ==
    [i \in 1..(2 * Len(bytes)) |->
        IF i % 2 = 1
        THEN HexDigits[(bytes[(i + 1) \div 2] \div 16) + 1]
        ELSE HexDigits[(bytes[i \div 2] % 16) + 1]]

\* the value of each hex digit, of either case
HexValues ==
    [c \in {HexDigits[k] : k \in 1..16} \cup {UpperHexDigits[k] : k \in 1..16} |->
        (CHOOSE k \in 1..16 : HexDigits[k] = c \/ UpperHexDigits[k] = c) - 1]

\* the value of a hex digit, -1 for any other character
hex_val(c) == IF c \in DOMAIN HexValues THEN HexValues[c] ELSE -1

\* hex::decode: [ok, bytes]
hex_decode(s) ==
    IF Len(s) % 2 # 0 THEN [ok |-> FALSE, bytes |-> << >>]
    ELSE IF \E i \in 1..Len(s) : hex_val(s[i]) < 0 THEN [ok |-> FALSE, bytes |-> << >>]
    ELSE [ok |-> TRUE,
          bytes |-> [i \in 1..(Len(s) \div 2) |->
                        16 * hex_val(s[2 * i - 1]) + hex_val(s[2 * i])]]

\* JSON tokens
Punct(c) == [t |-> c, v |-> << >>]

Str(chars) == [t |-> "str", v |-> chars]

Num(digits) == [t |-> "num", v |-> digits]

VersionKey == <<"v", "e", "r", "s", "i", "o", "n">>

NullifiersKey == <<"n", "u", "l", "l", "i", "f", "i", "e", "r", "s">>

\* a u32 written in decimal
RECURSIVE Decimal(_)
Decimal(n) ==
    IF n < 10 THEN <<HexDigits[n + 1]>>
    ELSE Decimal(n \div 10) \o <<HexDigits[(n % 10) + 1]>>

\* the strings of an array, separated by commas
RECURSIVE Elements(_, _)
Elements(strings, i) ==
    IF i > Len(strings) THEN << >>
    ELSE IF i = Len(strings) THEN <<Str(strings[i])>>
    ELSE <<Str(strings[i]), Punct(",")>> \o Elements(strings, i + 1)

\* serde_json::to_string of a NullifierSetExport: fields in declaration order
to_string(export) ==
    <<Punct("{"), Str(VersionKey), Punct(":"), Num(Decimal(export.version)), Punct(","),
      Str(NullifiersKey), Punct(":"), Punct("[")>>
        \o Elements(export.nullifiers, 1)
        \o <<Punct("]"), Punct("}")>>

\* the kind of the i-th token, "eof" past the end of the text
At(json, i) == IF i \in 1..Len(json) THEN json[i].t ELSE "eof"

\* a JSON number that fits a u32: [ok, n] (digits only, no leading zero; a
\* number of ten digits or more is beyond every version the model reads)
parse_u32(digits) ==
    IF \/ Len(digits) = 0
       \/ Len(digits) > 9
       \/ \E i \in 1..Len(digits) : hex_val(digits[i]) \notin 0..9
       \/ (Len(digits) > 1 /\ digits[1] = "0")
    THEN [ok |-> FALSE, n |-> 0]
    ELSE LET RECURSIVE value(_)
             value(k) == IF k = 0 THEN 0 ELSE 10 * value(k - 1) + hex_val(digits[k])
         IN [ok |-> TRUE, n |-> value(Len(digits))]

\* the strings of an array from token i on, after "[" or ",": [ok, next, strings]
RECURSIVE parse_elements(_, _, _)
parse_elements(json, i, acc) ==
    IF At(json, i) # "str" THEN [ok |-> FALSE, next |-> i, strings |-> << >>]
    ELSE IF At(json, i + 1) = ","
    THEN parse_elements(json, i + 2, Append(acc, json[i].v))
    ELSE IF At(json, i + 1) = "]"
    THEN [ok |-> TRUE, next |-> i + 2, strings |-> Append(acc, json[i].v)]
    ELSE [ok |-> FALSE, next |-> i, strings |-> << >>]

\* Vec<String> from token i on: [ok, next, strings]
parse_strings(json, i) ==
    IF At(json, i) # "[" THEN [ok |-> FALSE, next |-> i, strings |-> << >>]
    ELSE IF At(json, i + 1) = "]" THEN [ok |-> TRUE, next |-> i + 2, strings |-> << >>]
    ELSE parse_elements(json, i + 1, << >>)

NoExport == [ok |-> FALSE, version |-> 0, nullifiers |-> << >>]

\* the members of the object from token i on, after "{" or ",": the derived
\* Deserialize takes the two fields in any order, refuses a field given twice
\* or missing, skips a member of another name whose value is a number or a
\* string, and serde_json refuses anything after the closing brace
RECURSIVE parse_members(_, _, _, _)
parse_members(json, i, version, nullifiers) ==
    IF At(json, i) # "str" \/ At(json, i + 1) # ":" THEN NoExport
    ELSE LET key == json[i].v
             number == IF At(json, i + 2) = "num" THEN parse_u32(json[i + 2].v)
                       ELSE [ok |-> FALSE, n |-> 0]
             strings == parse_strings(json, i + 2)
             known == key = VersionKey \/ key = NullifiersKey
             accepted ==
                 IF key = VersionKey THEN number.ok /\ ~version.some
                 ELSE IF key = NullifiersKey THEN strings.ok /\ ~nullifiers.some
                 ELSE At(json, i + 2) \in {"num", "str"}
             next == IF key = NullifiersKey THEN strings.next ELSE i + 3
             version2 == IF key = VersionKey THEN Some(number.n) ELSE version
             nullifiers2 == IF key = NullifiersKey THEN Some(strings.strings) ELSE nullifiers
         IN IF ~accepted THEN NoExport
            ELSE IF At(json, next) = "," THEN parse_members(json, next + 1, version2, nullifiers2)
            ELSE IF At(json, next) = "}" /\ next = Len(json)
                    /\ version2.some /\ nullifiers2.some
            THEN [ok |-> TRUE, version |-> version2.v, nullifiers |-> nullifiers2.v]
            ELSE NoExport

\* serde_json::from_str::<NullifierSetExport>: [ok, version, nullifiers]
from_str(json) ==
    IF At(json, 1) # "{" THEN NoExport
    ELSE parse_members(json, 2, None, None)

\* HashSet::iter: the members, in any order
HashSet_iter(set) ==
    {f \in [1..Cardinality(set) -> set] : \A x \in set : \E i \in DOMAIN f : f[i] = x}

\* export_nullifier_set: the texts it can return, one per iteration order
export_nullifier_set(set) ==
    {to_string([version |-> CURRENT_VERSION,
                nullifiers |-> [i \in DOMAIN order |-> hex_encode(order[i])]]) :
        order \in HashSet_iter(set)}

\* the for loop of import_nullifier_set, from entry i on: [res, val]
RECURSIVE import_loop(_, _, _)
import_loop(nullifiers, i, set) ==
    IF i > Len(nullifiers) THEN [res |-> Ok, val |-> Some(set)]
    ELSE LET decoded == hex_decode(nullifiers[i])
         IN IF ~decoded.ok THEN [res |-> SerializationError, val |-> None]
            ELSE IF validate_nullifier(decoded.bytes) # Ok
            THEN [res |-> validate_nullifier(decoded.bytes), val |-> None]
            ELSE import_loop(nullifiers, i + 1, set \cup {decoded.bytes})

\* import_nullifier_set that refuses the current version too (>= for >)
import_nullifier_set_strict(json) ==
    LET export == from_str(json)
    IN IF ~export.ok THEN [res |-> SerializationError, val |-> None]
       ELSE IF export.version >= CURRENT_VERSION
       THEN [res |-> SerializationError, val |-> None]
       ELSE import_loop(export.nullifiers, 1, {})

\* import_nullifier_set: [res, val]
import_nullifier_set(json) ==
    LET export == from_str(json)
    IN IF ~export.ok THEN [res |-> SerializationError, val |-> None]
       ELSE IF export.version > CURRENT_VERSION
       THEN [res |-> SerializationError, val |-> None]
       ELSE import_loop(export.nullifiers, 1, {})

\* characters that form no JSON token
Invalid(chars) == [t |-> "invalid", v |-> chars]

(***************************************************************************)
(* A caller that keeps a HashSet<Vec<u8>>, exports it and imports texts.    *)
(***************************************************************************)
MaxVersion == 2       \* versions written into the imported texts
MaxEntries == 2       \* most entries of an imported text

\* what the caller inserts into its set: nullifiers, and a vector that is none
SetMembers == {Fill(1, NULLIFIER_LENGTH), Fill(171, NULLIFIER_LENGTH), <<1, 2, 3>>}

\* the strings the "nullifiers" array of an imported text is built from
EntryInputs ==
    {hex_encode(Fill(1, NULLIFIER_LENGTH)), hex_encode(Fill(171, NULLIFIER_LENGTH)), << >>}

EntryLists == UNION {[1..k -> EntryInputs] : k \in 0..MaxEntries}

\* strings that are no nullifier: "invalid hex", a string of even length with
\* a character that is no digit, and the hex of three bytes
BadEntries ==
    {<<"i", "n", "v", "a", "l", "i", "d", " ", "h", "e", "x">>,
     [i \in 1..(2 * NULLIFIER_LENGTH) |-> IF i = 2 THEN "g" ELSE "0"],
     hex_encode(<<1, 2, 3>>)}

\* texts whose last entry is one of them
BadEntryTexts ==
    {to_string([version |-> CURRENT_VERSION, nullifiers |-> e]) :
        e \in {<<h>> : h \in BadEntries}
                 \cup {<<hex_encode(Fill(1, NULLIFIER_LENGTH)), h>> : h \in BadEntries}}

\* texts that are no NullifierSetExport: "invalid json", a text cut short, a
\* text without "version", a text with "version" twice
MalformedTexts ==
    {<<Invalid(<<"i", "n", "v", "a", "l", "i", "d", " ", "j", "s", "o", "n">>)>>,
     <<Punct("{"), Str(VersionKey), Punct(":"), Num(<<"1">>), Punct(","),
       Str(NullifiersKey), Punct(":"), Punct("["), Punct("]")>>,
     <<Punct("{"), Str(NullifiersKey), Punct(":"), Punct("["), Punct("]"), Punct("}")>>,
     <<Punct("{"), Str(VersionKey), Punct(":"), Num(<<"1">>), Punct(","),
       Str(VersionKey), Punct(":"), Num(<<"1">>), Punct(","),
       Str(NullifiersKey), Punct(":"), Punct("["), Punct("]"), Punct("}")>>}

\* a text with the fields in the other order
ReorderedTexts ==
    {<<Punct("{"), Str(NullifiersKey), Punct(":"), Punct("["),
       Str(hex_encode(Fill(1, NULLIFIER_LENGTH))), Punct("]"), Punct(","),
       Str(VersionKey), Punct(":"), Num(<<"0">>), Punct("}")>>}

Payloads ==
    {to_string([version |-> v, nullifiers |-> e]) : v \in 0..MaxVersion, e \in EntryLists}
        \cup BadEntryTexts \cup MalformedTexts \cup ReorderedTexts

\* spent_set.insert(vec)
HashSetInsert ==
    \E m \in SetMembers :
        LegacyCall("HashSet_insert", <<m>>, spent_set \cup {m}, Ok, None)

ExportNullifierSet ==
    \E json \in export_nullifier_set(spent_set) :
        LegacyCall("export_nullifier_set", << >>, spent_set, Ok, Some(json))

\* import of a text: the one export_nullifier_set just returned, or another
ImportNullifierSet ==
    \E json \in Payloads \cup (IF ret.op = "export_nullifier_set" THEN {ret.val.v} ELSE {}) :
        LET r == import_nullifier_set(json)
        IN LegacyCall("import_nullifier_set", <<json>>, spent_set, r.res, r.val)

NextSerialization ==
    \/ HashSetInsert
    \/ ExportNullifierSet
    \/ ImportNullifierSet

SpecSerialization == Init /\ [][NextSerialization]_vars

(***************************************************************************)
(* A caller that keeps a HashSet<Vec<u8>> and queries it through the legacy *)
(* API (nullifier.rs).                                                      *)
(***************************************************************************)
\* the vectors asked about: the ones the caller inserts, and [4, 5, 6]
QueryInputs == SetMembers \cup {<<4, 5, 6>>}

Queries == UNION {[1..k -> QueryInputs] : k \in 0..MaxBatch}

IsNullifierSpent ==
    \E n \in QueryInputs :
        LegacyCall("is_nullifier_spent", <<n>>, spent_set, Ok,
                   Some(is_nullifier_spent(n, spent_set)))

CheckMultipleNullifiers ==
    \E nullifiers \in Queries :
        LegacyCall("check_multiple_nullifiers", nullifiers, spent_set, Ok,
                   Some(check_multiple_nullifiers(nullifiers, spent_set)))

NextQuery ==
    \/ HashSetInsert
    \/ IsNullifierSpent
    \/ CheckMultipleNullifiers

SpecQuery == Init /\ [][NextQuery]_vars

(***************************************************************************)
(* The validation functions and Nullifier::from_slice, applied to byte      *)
(* vectors on both sides of every limit (validation.rs, nullifier_type.rs). *)
(***************************************************************************)
\* a call that touches no state
PureCall(op, arg, res, val) ==
    /\ ret' = [op |-> op, arg |-> arg, res |-> res, val |-> val]
    /\ UNCHANGED <<notes, spent_nullifiers, spent_set, ever_spent, ok_spends, pc, call, borrow, held, heap>>

ByteSamples == (0..MaxFill) \cup {255}

SecretSamples ==
    {Fill(b, len) : b \in ByteSamples,
                    len \in (0..(MIN_SECRET_LENGTH + 1))
                              \cup ((MAX_SECRET_LENGTH - 1)..(MAX_SECRET_LENGTH + 1))}

\* u64 values (the model's integers end at 2^31 - 1)
ValueSamples == {0, 1, 2, 255, 256, 65535, 65536, 2147483647}

SliceSamples ==
    {Fill(b, len) : b \in ByteSamples, len \in 0..(NULLIFIER_LENGTH + 2)}
        \cup {[i \in 1..len |-> i] : len \in (NULLIFIER_LENGTH - 1)..(NULLIFIER_LENGTH + 1)}

ValidateSecret ==
    \E secret \in SecretSamples :
        PureCall("validate_secret", <<secret>>, validate_secret(secret), None)

ValidateValue ==
    \E value \in ValueSamples :
        PureCall("validate_value", <<value>>, validate_value(value), None)

NullifierFromSlice ==
    \E slice \in SliceSamples :
        LET r == from_slice(slice)
        IN PureCall("Nullifier_from_slice", <<slice>>, r.res,
                    IF r.res = Ok THEN Some(r.n) ELSE None)

NextValidation ==
    \/ ValidateSecret
    \/ ValidateValue
    \/ NullifierFromSlice

SpecValidation == Init /\ [][NextValidation]_vars

(***************************************************************************)
(* A caller that holds a SparkNote (note.rs): it creates the note, can      *)
(* assign the two public fields, and can give a clone to the registry.      *)
(***************************************************************************)
\* the commitments a holder writes into the public field
CommitmentSamples == {Fill(0, NULLIFIER_LENGTH)}

CreateNote ==
    \E value \in Values, secret \in SecretInputs \cup {<< >>} :
        LET r == create_note(value, secret)
        IN /\ held' = IF r.res = Ok THEN Some(r.note) ELSE held
           /\ ret' = [op |-> "create_note", arg |-> <<value, secret>>, res |-> r.res,
                      val |-> None]
           /\ UNCHANGED <<notes, spent_nullifiers, spent_set, ever_spent, ok_spends, pc, call, borrow, heap>>

\* note.value = value (`pub value: u64`)
AssignValue ==
    \E value \in Values \cup {2} :
        /\ held.some
        /\ held' = Some([held.v EXCEPT !.value = value])
        /\ ret' = [op |-> "assign_value", arg |-> <<value>>, res |-> Ok, val |-> None]
        /\ UNCHANGED <<notes, spent_nullifiers, spent_set, ever_spent, ok_spends, pc, call, borrow, heap>>

\* note.commitment = commitment (`pub commitment: Vec<u8>`)
AssignCommitment ==
    \E commitment \in CommitmentSamples :
        /\ held.some
        /\ held' = Some([held.v EXCEPT !.commitment = commitment])
        /\ ret' = [op |-> "assign_commitment", arg |-> <<commitment>>, res |-> Ok,
                   val |-> None]
        /\ UNCHANGED <<notes, spent_nullifiers, spent_set, ever_spent, ok_spends, pc, call, borrow, heap>>

\* manager.add_note(id, note.clone())
AddHeldNote ==
    \E id \in Ids :
        /\ held.some
        /\ ManagerCall("add_note", <<id, held.v>>, add_note(self, id, held.v))

NextNote ==
    \/ CreateNote
    \/ AssignValue
    \/ AssignCommitment
    \/ AddHeldNote
    \/ RemoveNote

SpecNote == Init /\ [][NextNote]_vars

(***************************************************************************)
(* secret.rs: the memory of Secret values.  heap lists, in allocation       *)
(* order, every byte buffer a Secret has owned or handed out; a buffer      *)
(* that was released stays listed with the bytes its memory was left with.  *)
(***************************************************************************)
MaxBuffers == 2       \* buffers allocated in one run

\* the vectors secrets are made of: the two spending secrets and a short one
SecretData == SecretInputs \cup {<<1, 2, 3, 4, 5>>}

\* a value that owns a heap buffer: a Secret (kept by a caller or inside a
\* SparkNote) or a plain Vec<u8>
Buffer(kind, bytes) ==
    [kind |-> kind, owner |-> "caller", bytes |-> bytes, live |-> TRUE,
     reading |-> FALSE, zeroized |-> 0]

\* Secret::new(data) takes the vector over
Secret_new(data) == Buffer("Secret", data)

\* #[derive(Clone)]: a Secret of its own over a copy of the bytes
Secret_clone(secret) == Buffer("Secret", secret.bytes)

Secret_as_bytes(secret) == secret.bytes

\* #[derive(Zeroize)]: every byte of the buffer is overwritten with zero
zeroize(secret) ==
    [secret EXCEPT !.bytes = Fill(0, Len(secret.bytes)), !.zeroized = @ + 1]

\* drop of a Secret that leaves the buffer as it is
Secret_drop_plain(secret) == [secret EXCEPT !.live = FALSE]

\* #[derive(ZeroizeOnDrop)]: drop zeroizes, then the buffer is freed
Secret_drop(secret) == [zeroize(secret) EXCEPT !.live = FALSE]

\* drop of a Vec<u8>: the buffer is freed with its bytes in it
Vec_drop(vec) == [vec EXCEPT !.live = FALSE]

\* into_inner(self): the result is a clone of the vector, and self is dropped
\* when the function returns
Secret_into_inner(secret) ==
    [val |-> Buffer("Vec", secret.bytes), self |-> Secret_drop(secret)]

\* impl Debug: write!(f, "Secret(***)")
Secret_fmt(secret) == <<"S", "e", "c", "r", "e", "t", "(", "*", "*", "*", ")">>

\* the bytes of a sequence as JSON numbers, separated by commas
RECURSIVE Numbers(_, _)
Numbers(bytes, i) ==
    IF i > Len(bytes) THEN << >>
    ELSE IF i = Len(bytes) THEN <<Num(Decimal(bytes[i]))>>
    ELSE <<Num(Decimal(bytes[i])), Punct(",")>> \o Numbers(bytes, i + 1)

\* Serializer::serialize_bytes as serde_json writes it: an array of numbers
serialize_bytes(bytes) == <<Punct("[")>> \o Numbers(bytes, 1) \o <<Punct("]")>>

\* impl Serialize that writes the bytes the Secret holds
Secret_serialize_contents(secret) == serialize_bytes(secret.bytes)

\* impl Serialize for Secret: serializer.serialize_bytes(&[])
Secret_serialize(secret) == serialize_bytes(<< >>)

\* D::Error of the deserializer (serde_json::Error)
DeserializeError == [kind |-> "DeserializeError", code |-> "None"]

\* the u8 elements of an array from token i on, after "[" or ",": [ok, bytes]
RECURSIVE parse_bytes(_, _, _)
parse_bytes(json, i, acc) ==
    IF At(json, i) # "num" THEN [ok |-> FALSE, bytes |-> << >>]
    ELSE IF ~parse_u32(json[i].v).ok \/ parse_u32(json[i].v).n > 255
    THEN [ok |-> FALSE, bytes |-> << >>]
    ELSE IF At(json, i + 1) = ","
    THEN parse_bytes(json, i + 2, Append(acc, parse_u32(json[i].v).n))
    ELSE IF At(json, i + 1) = "]" /\ Len(json) = i + 1
    THEN [ok |-> TRUE, bytes |-> Append(acc, parse_u32(json[i].v).n)]
    ELSE [ok |-> FALSE, bytes |-> << >>]

\* Vec::<u8>::deserialize as serde_json reads it: an array of numbers 0..255
\* and nothing after it
Vec_deserialize(json) ==
    IF At(json, 1) # "[" THEN [ok |-> FALSE, bytes |-> << >>]
    ELSE IF At(json, 2) = "]"
    THEN [ok |-> Len(json) = 2, bytes |-> << >>]
    ELSE parse_bytes(json, 2, << >>)

\* impl Deserialize that keeps the bytes of the payload
Secret_deserialize_contents(json) ==
    IF ~Vec_deserialize(json).ok
    THEN [res |-> DeserializeError, secret |-> Secret_new(<< >>)]
    ELSE [res |-> Ok, secret |-> Secret_new(Vec_deserialize(json).bytes)]

\* impl Deserialize for Secret: the vector is read and discarded, the result
\* is Secret::new(vec![]); [res, secret]
Secret_deserialize(json) ==
    IF ~Vec_deserialize(json).ok
    THEN [res |-> DeserializeError, secret |-> Secret_new(<< >>)]
    ELSE [res |-> Ok, secret |-> Secret_new(<< >>)]

\* payloads that are a byte array: what serialization writes for any Secret
\* and arrays that carry bytes
WellFormedPayloads ==
    {serialize_bytes(data) : data \in SecretData \cup {<< >>, <<0>>, <<255>>}}

\* payloads that are no byte array: a string, a number above 255, an array
\* left open, text after the array
MalformedPayloads ==
    {<<Str(<<"a">>)>>,
     <<Punct("["), Num(Decimal(256)), Punct("]")>>,
     <<Punct("["), Num(Decimal(1))>>,
     <<Punct("["), Punct("]"), Punct("]")>>}

\* the Secrets a caller or a note still owns
LiveSecrets == {a \in DOMAIN heap : heap[a].kind = "Secret" /\ heap[a].live}

\* the Secrets that can be moved or dropped: no `&[u8]` of theirs is alive
Unborrowed == {a \in LiveSecrets : ~heap[a].reading}

SecretCall(op, arg, val) ==
    /\ ret' = [op |-> op, arg |-> arg, res |-> Ok, val |-> val]
    /\ UNCHANGED <<notes, spent_nullifiers, spent_set, ever_spent, ok_spends, pc, call, borrow, held>>

SecretNew ==
    \E data \in SecretData :
        /\ Len(heap) < MaxBuffers
        /\ heap' = Append(heap, Secret_new(data))
        /\ SecretCall("Secret_new", <<data>>, None)

SecretClone ==
    \E a \in LiveSecrets :
        /\ Len(heap) < MaxBuffers
        /\ heap' = Append(heap, Secret_clone(heap[a]))
        /\ SecretCall("Secret_clone", <<a>>, None)

\* let bytes = secret.as_bytes(): the borrow lives until EndRead
AsBytes ==
    \E a \in LiveSecrets :
        /\ heap' = [heap EXCEPT ![a].reading = TRUE]
        /\ SecretCall("Secret_as_bytes", <<a>>, Some(Secret_as_bytes(heap[a])))

EndRead ==
    \E a \in LiveSecrets :
        /\ heap[a].reading
        /\ heap' = [heap EXCEPT ![a].reading = FALSE]
        /\ SecretCall("end_read", <<a>>, None)

\* SparkNote::new(value, secret): the Secret moves into the note, or is
\* dropped with the arguments when validation fails
NoteNew ==
    \E a \in Unborrowed, value \in Values :
        LET r == create_note(value, heap[a].bytes)
        IN /\ heap[a].owner = "caller"
           /\ heap' = [heap EXCEPT ![a] = IF r.res = Ok
                                          THEN [heap[a] EXCEPT !.owner = "note"]
                                          ELSE Secret_drop(heap[a])]
           /\ ret' = [op |-> "SparkNote_new", arg |-> <<a, value>>, res |-> r.res,
                      val |-> None]
           /\ UNCHANGED <<notes, spent_nullifiers, spent_set, ever_spent, ok_spends, pc, call,
                          borrow, held>>

IntoInner ==
    \E a \in Unborrowed :
        LET r == Secret_into_inner(heap[a])
        IN /\ heap[a].owner = "caller"
           /\ Len(heap) < MaxBuffers
           /\ heap' = Append([heap EXCEPT ![a] = r.self], r.val)
           /\ SecretCall("Secret_into_inner", <<a>>, Some(r.val.bytes))

\* the owner goes out of scope: the caller's Secret, or the note with its Secret
SecretDrop ==
    \E a \in Unborrowed :
        /\ heap' = [heap EXCEPT ![a] = Secret_drop(heap[a])]
        /\ SecretCall("Secret_drop", <<a>>, None)

VecDrop ==
    \E a \in DOMAIN heap :
        /\ heap[a].kind = "Vec" /\ heap[a].live
        /\ heap' = [heap EXCEPT ![a] = Vec_drop(heap[a])]
        /\ SecretCall("Vec_drop", <<a>>, None)

\* format!("{:?}", secret)
SecretDebug ==
    \E a \in LiveSecrets :
        /\ heap' = heap
        /\ SecretCall("Secret_fmt", <<a>>, Some(Secret_fmt(heap[a])))

\* serde_json::to_string(&secret)
SecretSerialize ==
    \E a \in LiveSecrets :
        /\ heap' = heap
        /\ SecretCall("Secret_serialize", <<a>>, Some(Secret_serialize(heap[a])))

\* serde_json::from_str::<Secret>(payload): val is the address of the new
\* Secret, None on Err
SecretDeserialize ==
    \E payload \in WellFormedPayloads \cup MalformedPayloads :
        LET r == Secret_deserialize(payload)
        IN /\ Len(heap) < MaxBuffers
           /\ heap' = IF r.res = Ok THEN Append(heap, r.secret) ELSE heap
           /\ ret' = [op |-> "Secret_deserialize", arg |-> <<payload>>, res |-> r.res,
                      val |-> IF r.res = Ok THEN Some(<<Len(heap) + 1>>) ELSE None]
           /\ UNCHANGED <<notes, spent_nullifiers, spent_set, ever_spent, ok_spends, pc, call,
                          borrow, held>>

NextSecret ==
    \/ SecretNew
    \/ SecretClone
    \/ AsBytes
    \/ EndRead
    \/ NoteNew
    \/ IntoInner
    \/ SecretDrop
    \/ VecDrop
    \/ SecretDebug
    \/ SecretSerialize
    \/ SecretDeserialize

SpecSecret == Init /\ [][NextSecret]_vars

(***************************************************************************)
(* What leaves the crate: the public projections the registry returns       *)
(* (manager.rs), the serialized form of a note (note.rs), and the exported  *)
(* functions of the two binding surfaces (lib.rs, wasm.rs).                 *)
(***************************************************************************)
\* Vec<u8> as serde_json writes it: an array of numbers
serialize_seq(bytes) == <<Punct("[")>> \o Numbers(bytes, 1) \o <<Punct("]")>>

ValueKey == <<"v", "a", "l", "u", "e">>

CommitmentKey == <<"c", "o", "m", "m", "i", "t", "m", "e", "n", "t">>

\* impl Serialize for SparkNote: the fields "value" and "commitment"
SparkNote_serialize(note) ==
    <<Punct("{"), Str(ValueKey), Punct(":"), Num(Decimal(note.value)), Punct(","),
      Str(CommitmentKey), Punct(":")>>
        \o serialize_seq(note.commitment)
        \o <<Punct("}")>>

\* list_notes: one Vec<(String, NoteEntry)> per order the HashMap can yield
list_notes(this) ==
    {[i \in DOMAIN order |-> <<order[i], NoteEntry(this.notes[order[i]])>>] :
        order \in HashSet_iter(DOMAIN this.notes)}

\* [res, val]
uniffi_create_note(value, secret) ==
    LET r == create_note(value, secret)
    IN IF r.res # Ok THEN [res |-> r.res, val |-> None]
       ELSE [res |-> Ok, val |-> Some(PublicNote(r.note))]

uniffi_note_commitment(note) == note.commitment

\* crypto::constant_time_eq
constant_time_eq(a, b) == a = b

\* [res, val]
\* uniffi_generate_nullifier without the comparison of the commitments
uniffi_generate_nullifier_unverified(note, secret) ==
    LET r == create_note(note.value, secret)
    IN IF r.res # Ok THEN [res |-> r.res, val |-> None]
       ELSE [res |-> Ok, val |-> Some(generate_nullifier(r.note, secret))]

uniffi_generate_nullifier(note, secret) ==
    LET r == create_note(note.value, secret)
    IN IF r.res # Ok THEN [res |-> r.res, val |-> None]
       ELSE IF ~constant_time_eq(r.note.commitment, note.commitment)
       THEN [res |-> OperationError, val |-> None]
       ELSE [res |-> Ok, val |-> Some(generate_nullifier(r.note, secret))]

JsError == [kind |-> "JsError", code |-> "None"]

\* the getters of WasmSparkNote
WasmSparkNote_value(this) == this.value

WasmSparkNote_secret(this) == this.secret

WasmSparkNote_commitment(this) == this.commitment

\* toJSON: serde_json::to_string(&self.inner)
toJSON(this) == SparkNote_serialize(this)

\* fromJSON refuses every text
fromJSON(json) == [res |-> JsError, note |-> NoNote]

\* createNote: [res, note]
createNote(value, secret) ==
    IF validate_value(value) # Ok THEN [res |-> JsError, note |-> NoNote]
    ELSE IF validate_secret(secret) # Ok THEN [res |-> JsError, note |-> NoNote]
    ELSE IF create_note(value, secret).res # Ok THEN [res |-> JsError, note |-> NoNote]
    ELSE [res |-> Ok, note |-> create_note(value, secret).note]

noteCommitment(note) == note.commitment

generateNullifier(note, secret) == generate_nullifier(note, secret)

\* isNullifierSpent: the array becomes a HashSet<Vec<u8>>
isNullifierSpent(nullifier, spent_array) ==
    is_nullifier_spent(nullifier, {spent_array[i] : i \in DOMAIN spent_array})

\* the registry and the note of a holder, seen through their projections
GetNote ==
    \E id \in Ids : ManagerCall("get_note", <<id>>, get_note(self, id))

ListNotes ==
    \E list \in list_notes(self) :
        ManagerCall("list_notes", << >>, [self |-> self, res |-> Ok, val |-> Some(list)])

\* a call that reads the held note
HeldCall(op, arg, res, val) ==
    /\ held.some
    /\ PureCall(op, arg, res, val)

\* serde_json::to_string(&note)
NoteToJson ==
    HeldCall("SparkNote_serialize", << >>, Ok, Some(SparkNote_serialize(held.v)))

UniffiCreateNote ==
    \E value \in Values, secret \in SecretInputs \cup {<< >>} :
        LET r == uniffi_create_note(value, secret)
        IN PureCall("uniffi_create_note", <<value, secret>>, r.res, r.val)

NextProjection ==
    \/ CreateNote
    \/ AddNote
    \/ GenerateNullifierForNote
    \/ MarkNoteAsSpent
    \/ GetNote
    \/ ListNotes
    \/ RemoveNote
    \/ NoteToJson
    \/ UniffiCreateNote

SpecProjection == Init /\ [][NextProjection]_vars

\* the two binding surfaces; held is the note inside the WasmSparkNote the
\* other side has a handle of
WasmCreateNote ==
    \E value \in Values \cup {2}, secret \in SecretInputs \cup {<< >>} :
        LET r == createNote(value, secret)
        IN /\ held' = IF r.res = Ok THEN Some(r.note) ELSE held
           /\ ret' = [op |-> "createNote", arg |-> <<value, secret>>, res |-> r.res,
                      val |-> None]
           /\ UNCHANGED <<notes, spent_nullifiers, spent_set, ever_spent, ok_spends, pc, call, borrow, heap>>

WasmValue ==
    HeldCall("WasmSparkNote_value", << >>, Ok, Some(WasmSparkNote_value(held.v)))

WasmSecret ==
    HeldCall("WasmSparkNote_secret", << >>, Ok, Some(WasmSparkNote_secret(held.v)))

WasmCommitment ==
    HeldCall("WasmSparkNote_commitment", << >>, Ok, Some(WasmSparkNote_commitment(held.v)))

WasmToJson ==
    HeldCall("toJSON", << >>, Ok, Some(toJSON(held.v)))

WasmFromJson ==
    \E note \in NoteInputs :
        PureCall("fromJSON", <<SparkNote_serialize(note)>>,
                 fromJSON(SparkNote_serialize(note)).res, None)

WasmNoteCommitment ==
    HeldCall("noteCommitment", << >>, Ok, Some(noteCommitment(held.v)))

WasmGenerateNullifier ==
    \E secret \in SecretInputs :
        HeldCall("generateNullifier", <<secret>>, Ok, Some(generateNullifier(held.v, secret)))

WasmIsNullifierSpent ==
    \E nullifier \in LegacyInputs,
       spent_array \in UNION {[1..k -> NoteNullifiers] : k \in 0..1} :
        PureCall("isNullifierSpent", <<nullifier, spent_array>>, Ok,
                 Some(isNullifierSpent(nullifier, spent_array)))

UniffiNoteCommitment ==
    HeldCall("uniffi_note_commitment", << >>, Ok,
             Some(uniffi_note_commitment(PublicNote(held.v))))

UniffiGenerateNullifier ==
    \E secret \in SecretInputs :
        LET r == uniffi_generate_nullifier(PublicNote(held.v), secret)
        IN HeldCall("uniffi_generate_nullifier", <<secret>>, r.res, r.val)

NextBinding ==
    \/ WasmCreateNote
    \/ WasmValue
    \/ WasmSecret
    \/ WasmCommitment
    \/ WasmToJson
    \/ WasmFromJson
    \/ WasmNoteCommitment
    \/ WasmGenerateNullifier
    \/ WasmIsNullifierSpent
    \/ UniffiCreateNote
    \/ UniffiNoteCommitment
    \/ UniffiGenerateNullifier

SpecBinding == Init /\ [][NextBinding]_vars

(***************************************************************************)
(* The two spend interfaces side by side (nullifier.rs, manager.rs): one   *)
(* caller gives every byte string both to mark_as_spent, on the legacy set *)
(* it owns, and to add_spent_nullifier, on the manager; both start empty.  *)
(***************************************************************************)
\* the byte strings of the requests: every length around the right one
SpendRequests ==
    NullifierInputs
        \cup {Fill(b, len) : b \in ByteSamples,
                             len \in (NULLIFIER_LENGTH - 1)..(NULLIFIER_LENGTH + 1)}

\* res holds what mark_as_spent returned, val what add_spent_nullifier did
SpendBoth ==
    \E n \in SpendRequests :
        LET legacy == mark_as_spent(n, spent_set)
            typed == add_spent_nullifier(self, n)
        IN /\ spent_set' = legacy.set
           /\ notes' = typed.self.notes
           /\ spent_nullifiers' = typed.self.spent_nullifiers
           /\ ok_spends' = IF typed.res = Ok THEN ok_spends + 1 ELSE ok_spends
           /\ ret' = [op |-> "spend_both", arg |-> <<n>>,
                      res |-> legacy.res, val |-> Some(typed.res)]
           /\ UNCHANGED <<ever_spent, pc, call, borrow, held, heap>>

SpecBothSpends == Init /\ [][SpendBoth]_vars

(***************************************************************************)
(* The note functions called on their own (note.rs, lib.rs): no state, the *)
(* caller supplies every argument and ret records what came back.  val is  *)
(* the sequence of what an Ok carries: empty on Err.                       *)
(***************************************************************************)
\* secrets offered with a PublicNote: the notes' own, a foreign one, and
\* lengths on both sides of the limits
OfferedSecrets ==
    SecretInputs
        \cup {Fill(1, len) : len \in {0, MIN_SECRET_LENGTH - 1,
                                       MAX_SECRET_LENGTH, MAX_SECRET_LENGTH + 1}}

\* commitments a caller can put into a PublicNote: computed ones and others
OfferedCommitments ==
    {compute_commitment(v, s) : v \in 1..(MaxFill + 1),
                                s \in SecretInputs \cup {Fill(1, MAX_SECRET_LENGTH)}}
        \cup {<< >>, Fill(0, 31), Fill(0, 32)}

\* PublicNote has public fields: the caller puts any value with any commitment;
\* arg lists the two fields of the note, then the secret
GenerateNullifierForPublicNote ==
    \E value \in 0..(MaxFill + 1), commitment \in OfferedCommitments,
       secret \in OfferedSecrets :
        LET note == [value |-> value, commitment |-> commitment]
            r == uniffi_generate_nullifier(note, secret)
        IN PureCall("uniffi_generate_nullifier", <<value, commitment, secret>>,
                    r.res, IF r.val.some THEN <<r.val.v>> ELSE << >>)

\* val lists the fields of the SparkNote the caller gets
CreateNoteFromSamples ==
    \E value \in ValueSamples, secret \in SecretSamples :
        LET r == create_note(value, secret)
        IN PureCall("create_note", <<value, secret>>, r.res,
                    IF r.res = Ok
                    THEN <<r.note.value, r.note.commitment, r.note.secret>>
                    ELSE << >>)

\* short byte strings over two byte values, the empty one included
ShortSecrets == UNION {[1..len -> 0..MaxFill] : len \in 0..2}

\* values that differ in the low byte, in a higher byte, or in both
HashedValues == {1, 256, 257}

\* the hasher input of two (value, secret) pairs
HashTwoInputs ==
    \E v1 \in HashedValues, v2 \in HashedValues,
       s1 \in ShortSecrets, s2 \in ShortSecrets :
        PureCall("compute_commitment", <<v1, s1, v2, s2>>, Ok,
                 <<hasher_input(v1, s1), hasher_input(v2, s2)>>)

NextNoteFunctions ==
    \/ GenerateNullifierForPublicNote
    \/ CreateNoteFromSamples
    \/ HashTwoInputs

SpecNoteFunctions == Init /\ [][NextNoteFunctions]_vars

(***************************************************************************)
(* Queries on the current state, as the callers of the claims make them.    *)
(***************************************************************************)
\* the manager in the next state
self_next == [notes |-> notes', spent_nullifiers |-> spent_nullifiers']

\* the last call was `op` and returned an error
Failed(r, op) == r.op = op /\ r.res # Ok

(***************************************************************************)
(* C1  Spend-once.  A spend that returns Ok leaves its nullifier a member   *)
(* of the set it was made on; a member stays a member in every later state, *)
(* the membership query for it answers true, and every later spend of it    *)
(* (mark_as_spent on the legacy set; add_spent_nullifier or                 *)
(* mark_note_as_spent on the manager) returns NullifierError/AlreadySpent,  *)
(* never Ok.                                                                *)
(***************************************************************************)
SpendOnceStep ==
    /\ ret'.op = "add_spent_nullifier" /\ ret'.res = Ok
        => NoteManager_is_nullifier_spent(self_next, ret'.arg[1]).val
    /\ ret'.op = "mark_note_as_spent" /\ ret'.res = Ok
        => NoteManager_is_nullifier_spent(self_next, notes[ret'.arg[1]].nullifier.v).val
    /\ ret'.op = "mark_as_spent" /\ ret'.res = Ok
        => is_nullifier_spent(ret'.arg[1], spent_set')
    /\ \A n \in spent_nullifiers :
        /\ NoteManager_is_nullifier_spent(self_next, n).val
        /\ ret'.op = "add_spent_nullifier" /\ ret'.arg[1] = n => ret'.res = AlreadySpent
        /\ (/\ ret'.op = "mark_note_as_spent"
            /\ ret'.arg[1] \in DOMAIN notes
            /\ notes[ret'.arg[1]].nullifier = Some(n)) => ret'.res = AlreadySpent
    /\ \A n \in spent_set :
        /\ is_nullifier_spent(n, spent_set')
        /\ ret'.op = "mark_as_spent" /\ ret'.arg[1] = n => ret'.res = AlreadySpent

C1_SpendOnce == [][SpendOnceStep]_vars

\* a second spend of a spent nullifier has been answered, on both sets
C1_Witness ==
    /\ ret.op = "add_spent_nullifier"
    /\ ret.res = AlreadySpent
    /\ ret.arg[1] \in spent_nullifiers
    /\ spent_set # {}

C4_AppendOnly ==
    [][/\ spent_nullifiers \subseteq spent_nullifiers'
       /\ spent_nullifier_count(self_next).val >= spent_nullifier_count(self).val]_vars

\* a Spent entry has been removed and its nullifier is still recorded
C4_Witness ==
    /\ ret.op = "remove_note"
    /\ ret.val.some
    /\ ret.val.v.state = "Spent"
    /\ ret.val.v.nullifier.v \in spent_nullifiers

(***************************************************************************)
(* C5  Spent is terminal.  As claimed: an identifier whose entry has been   *)
(* Spent never again denotes an Unspent entry.                              *)
(***************************************************************************)
C5_SpentIdNeverUnspent ==
    \A id \in ever_spent : id \in DOMAIN notes => notes[id].state # "Unspent"

(***************************************************************************)
(* C5 (amended)  No operation takes an entry out of Spent: an entry that is *)
(* Spent is Spent in the next state too, unless this step is the            *)
(* remove_note that deletes it.                                             *)
(***************************************************************************)
C5_SpentEntryStaysSpent ==
    [][\A id \in SpentIds(notes) :
          \/ id \in DOMAIN notes' /\ notes'[id].state = "Spent"
          \/ id \notin DOMAIN notes' /\ ret'.op = "remove_note" /\ ret'.arg = <<id>>]_vars

\* a nullifier has been generated again for an entry that is Spent
C5_Witness ==
    /\ ret.op = "generate_nullifier_for_note"
    /\ ret.res = Ok
    /\ ret.arg[1] \in SpentIds(notes)

(***************************************************************************)
(* C6  Every entry in state Spent has a recorded nullifier, and that        *)
(* nullifier is a member of the manager's spent set.                        *)
(***************************************************************************)
C6_SpentEntryNullifierRecorded ==
    \A id \in SpentIds(notes) :
        /\ notes[id].nullifier.some
        /\ notes[id].nullifier.v \in spent_nullifiers

(***************************************************************************)
(* C7  mark_note_as_spent(id) returns OperationError when id is unknown or  *)
(* the entry has no nullifier, NullifierError/AlreadySpent when the entry's *)
(* nullifier is in the spent set, and Ok in every other case.               *)
(***************************************************************************)
MarkNoteAsSpentVerdict(id) ==
    IF id \notin DOMAIN notes THEN OperationError
    ELSE IF notes[id].nullifier = None THEN OperationError
    ELSE IF notes[id].nullifier.v \in spent_nullifiers THEN AlreadySpent
    ELSE Ok

C7_MarkNoteAsSpentFailures ==
    [][ret'.op = "mark_note_as_spent" => ret'.res = MarkNoteAsSpentVerdict(ret'.arg[1])]_vars

\* mark_note_as_spent has succeeded a second time on the only entry there
\* has ever been, after a nullifier was generated with another secret
C7_Witness ==
    /\ ret.op = "mark_note_as_spent"
    /\ ret.res = Ok
    /\ ever_spent = {ret.arg[1]}
    /\ DOMAIN notes = {ret.arg[1]}
    /\ {generate_nullifier(notes[ret.arg[1]].note, s) : s \in SecretInputs}
           \subseteq spent_nullifiers

(***************************************************************************)
(* C8  Atomic failure: when add_note, generate_nullifier_for_note,          *)
(* mark_note_as_spent, add_spent_nullifier or mark_as_spent returns an      *)
(* error, the note map and both spent sets are what they were before.       *)
(***************************************************************************)
C8_AtomicFailure ==
    [][(/\ ret'.op \in {"add_note", "generate_nullifier_for_note",
                        "mark_note_as_spent", "add_spent_nullifier", "mark_as_spent"}
        /\ ret'.res # Ok)
       => /\ notes' = notes
          /\ spent_nullifiers' = spent_nullifiers
          /\ spent_set' = spent_set]_vars

\* mark_note_as_spent has been refused for an entry that is still Unspent
C8_Witness ==
    /\ ret.op = "mark_note_as_spent"
    /\ ret.res = AlreadySpent
    /\ notes[ret.arg[1]].state = "Unspent"

(***************************************************************************)
(* C9  add_note(id, note) returns Ok exactly when id is not a key of the    *)
(* registry; then the new entry holds the note, is Unspent and has no       *)
(* nullifier, and the other entries are untouched; on a duplicate id it     *)
(* returns OperationError.                                                  *)
(***************************************************************************)
C9_AddNote ==
    [][ret'.op = "add_note" =>
          LET id == ret'.arg[1]
              note == ret'.arg[2]
          IN /\ ret'.res = Ok <=> id \notin DOMAIN notes
             /\ ret'.res # Ok => ret'.res = OperationError
             /\ ret'.res = Ok =>
                  /\ DOMAIN notes' = DOMAIN notes \cup {id}
                  /\ notes'[id] = [note |-> note, state |-> "Unspent", nullifier |-> None]
                  /\ \A other \in DOMAIN notes : notes'[other] = notes[other]]_vars

\* add_note has been refused for an identifier whose entry is Spent
C9_Witness ==
    /\ ret.op = "add_note"
    /\ ret.res = OperationError
    /\ ret.arg[1] \in SpentIds(notes)

(***************************************************************************)
(* C3  Check-then-insert is atomic under concurrency: among the spenders    *)
(* that have finished a spend of the same nullifier on the same shared set, *)
(* exactly one was told Ok and every other was told AlreadySpent, whatever  *)
(* the interleaving of their steps.                                         *)
(***************************************************************************)
\* the finished spenders whose call reached the membership check of n on object o
Finished(o, n) ==
    {p \in Spenders : /\ pc[p] = "done"
                      /\ Object(call[p].op) = o
                      /\ call[p].val = n}

C3_AtMostOneSpender ==
    \A o \in {"manager", "spent_set"}, n \in NoteNullifiers :
        Finished(o, n) # {} =>
            /\ Cardinality({p \in Finished(o, n) : call[p].res = Ok}) = 1
            /\ \A p \in Finished(o, n) : call[p].res \in {Ok, AlreadySpent}

\* two spenders raced for one nullifier on the manager through different
\* operations: one got Ok, the other AlreadySpent
C3_Witness ==
    \E p, q \in Spenders :
        /\ pc[p] = "done" /\ pc[q] = "done"
        /\ call[p].op = "mark_note_as_spent" /\ call[p].res = Ok
        /\ call[q].op = "add_spent_nullifier" /\ call[q].res = AlreadySpent
        /\ call[p].val = call[q].val

(***************************************************************************)
(* C10  NullifierSet::add(n) returns true exactly when n was not a member   *)
(* before the call; returning false it leaves the set unchanged (same       *)
(* members, same len); returning true it leaves the old set plus n only.    *)
(***************************************************************************)
C10_NullifierSetAdd ==
    [][ret'.op = "NullifierSet_add" =>
          LET n == ret'.arg[1]
          IN /\ ret'.val = (n \notin spent_nullifiers)
             /\ ret'.val = FALSE =>
                  /\ spent_nullifiers' = spent_nullifiers
                  /\ NullifierSet_len(spent_nullifiers') = NullifierSet_len(spent_nullifiers)
             /\ ret'.val = TRUE =>
                  /\ spent_nullifiers' = spent_nullifiers \cup {n}
                  /\ NullifierSet_len(spent_nullifiers') = NullifierSet_len(spent_nullifiers) + 1]_vars

\* add has returned false for a member of a set that holds other members too
C10_Witness ==
    /\ ret.op = "NullifierSet_add"
    /\ ret.val = FALSE
    /\ ret.arg[1] \in spent_nullifiers
    /\ Cardinality(spent_nullifiers) >= 2

(***************************************************************************)
(* C11  Export/import round trip: for any set of byte vectors, the import   *)
(* of the text export_nullifier_set returned for it succeeds and returns a  *)
(* set with exactly the members of the exported set.                        *)
(***************************************************************************)
RoundTripStep ==
    /\ ret.op = "export_nullifier_set"
    /\ ret'.op = "import_nullifier_set"
    /\ ret'.arg = <<ret.val.v>>

C11_RoundTrip ==
    [][RoundTripStep => ret'.res = Ok /\ ret'.val.some /\ ret'.val.v = spent_set]_vars

(***************************************************************************)
(* C12  A malformed payload fails the whole import with SerializationError  *)
(* and yields no set: a text that is not a JSON document of the export      *)
(* format, an entry that is not valid hex, or an entry that decodes to a    *)
(* length other than 32 bytes (the empty string included).                  *)
(***************************************************************************)
Malformed(json) ==
    LET export == from_str(json)
    IN \/ ~export.ok
       \/ \E i \in DOMAIN export.nullifiers :
             LET decoded == hex_decode(export.nullifiers[i])
             IN ~decoded.ok \/ Len(decoded.bytes) # NULLIFIER_LENGTH

C12_MalformedIsSerializationError ==
    [][ret'.op = "import_nullifier_set" /\ Malformed(ret'.arg[1])
          => ret'.res = SerializationError /\ ~ret'.val.some]_vars

(***************************************************************************)
(* C13  Version gate: the import of a text that is well formed otherwise    *)
(* fails exactly when its version is greater than CURRENT_VERSION (versions *)
(* 0 and 1 are accepted), and every text export_nullifier_set returns       *)
(* carries version 1.                                                       *)
(***************************************************************************)
C13_VersionGate ==
    [][/\ ret'.op = "import_nullifier_set" /\ ~Malformed(ret'.arg[1])
            => (ret'.res # Ok <=> from_str(ret'.arg[1]).version > CURRENT_VERSION)
       /\ ret'.op = "export_nullifier_set"
            => \E i \in DOMAIN ret'.val.v :
                  /\ ret'.val.v[i] = Str(VersionKey)
                  /\ ret'.val.v[i + 2] = Num(<<"1">>)]_vars

\* a text of version 0 with two entries has been imported
C13_Witness ==
    /\ ret.op = "import_nullifier_set"
    /\ ret.res = Ok
    /\ from_str(ret.arg[1]).version = 0
    /\ Cardinality(ret.val.v) = 2

(***************************************************************************)
(* C14  check_multiple_nullifiers returns a vector of the length and order  *)
(* of its input whose i-th element is true exactly when the i-th input is a *)
(* member of the spent set, for byte vectors of any length.                 *)
(***************************************************************************)
C14_CheckMultipleIsMembership ==
    [][ret'.op = "check_multiple_nullifiers" =>
          /\ Len(ret'.val.v) = Len(ret'.arg)
          /\ \A i \in DOMAIN ret'.arg : ret'.val.v[i] = (ret'.arg[i] \in spent_set)]_vars

(***************************************************************************)
(* C15  validate_secret answers by the length L of the secret alone: Empty  *)
(* for L = 0, TooShort for 1 <= L <= 7, Ok for 8 <= L <= 1024, TooLong for  *)
(* L >= 1025; validate_value refuses the value 0 with InvalidValue/Zero and *)
(* accepts every other value.                                               *)
(***************************************************************************)
SecretVerdict(L) ==
    IF L = 0 THEN invalid_secret("Empty")
    ELSE IF L <= 7 THEN invalid_secret("TooShort")
    ELSE IF L <= 1024 THEN Ok
    ELSE invalid_secret("TooLong")

C15_ValidationVerdicts ==
    [][/\ ret'.op = "validate_secret" => ret'.res = SecretVerdict(Len(ret'.arg[1]))
       /\ ret'.op = "validate_value"
            => ret'.res = IF ret'.arg[1] = 0 THEN invalid_value("Zero") ELSE Ok]_vars

\* a secret of 1024 bytes, not all of them zero, has been accepted
C15_Witness ==
    /\ ret.op = "validate_secret"
    /\ Len(ret.arg[1]) = 1024
    /\ ret.arg[1][1024] = 255
    /\ ret.res = Ok

(***************************************************************************)
(* C16  Nullifier::from_slice(b) succeeds exactly when b has 32 bytes, and  *)
(* then the nullifier holds the bytes of b; an empty b fails with           *)
(* NullifierError/Empty and any other length with NullifierError/           *)
(* WrongLength; a Nullifier it returns holds exactly 32 bytes.              *)
(***************************************************************************)
C16_FromSlice ==
    [][ret'.op = "Nullifier_from_slice" =>
          LET b == ret'.arg[1]
          IN /\ ret'.res = Ok <=> Len(b) = 32
             /\ ret'.res = Ok => ret'.val.some /\ ret'.val.v = b /\ Len(ret'.val.v) = 32
             /\ Len(b) = 0 => ret'.res = nullifier_error("Empty")
             /\ Len(b) \notin {0, 32} => ret'.res = nullifier_error("WrongLength")
             /\ ret'.res # Ok => ~ret'.val.some]_vars

\* a slice of 32 different bytes has become a Nullifier
C16_Witness ==
    /\ ret.op = "Nullifier_from_slice"
    /\ ret.res = Ok
    /\ ret.val.v = ret.arg[1]
    /\ ret.arg[1][1] # ret.arg[1][32]

(***************************************************************************)
(* C17  A note's commitment is fixed at construction: in every reachable    *)
(* state, every SparkNote there is (held by a caller or stored in the       *)
(* registry) has commitment = compute_commitment(value, secret).            *)
(***************************************************************************)
Committed(note) == note.commitment = compute_commitment(note.value, note.secret)

C17_CommitmentFixed ==
    /\ held.some => Committed(held.v)
    /\ \A id \in DOMAIN notes : Committed(notes[id].note)

(***************************************************************************)
(* C21  Secret non-serializability: serializing a Secret writes the same    *)
(* empty placeholder whatever bytes it holds (the empty byte array, with no *)
(* byte in it, equal for any two secrets serialized one after the other),   *)
(* and Debug formatting writes the constant "Secret(***)".                  *)
(***************************************************************************)
C21_SecretNotSerialized ==
    [][/\ ret'.op = "Secret_serialize" =>
            /\ ret'.val.v = <<Punct("["), Punct("]")>>
            /\ \A i \in DOMAIN ret'.val.v : ret'.val.v[i].t # "num"
            /\ ret.op = "Secret_serialize" => ret'.val.v = ret.val.v
       /\ ret'.op = "Secret_fmt" =>
            ret'.val.v = <<"S", "e", "c", "r", "e", "t", "(", "*", "*", "*", ")">>]_vars

\* a Secret of non-zero bytes has been serialized while another Secret with
\* other bytes is alive
C21_Witness ==
    /\ ret.op = "Secret_serialize"
    /\ heap[ret.arg[1]].bytes = Fill(2, MIN_SECRET_LENGTH)
    /\ \E b \in LiveSecrets : heap[b].bytes = Fill(1, MIN_SECRET_LENGTH)

(***************************************************************************)
(* C22  Public projection of a note: the serialized form of a SparkNote and *)
(* every PublicNote and NoteEntry that get_note, list_notes, remove_note    *)
(* and uniffi_create_note return hold the note's value and commitment (a    *)
(* NoteEntry also the entry's state and recorded nullifier), no other field *)
(* and no byte of the secret.                                               *)
(***************************************************************************)
\* `public` has the two public fields of `note` and no other field
Projects(public, note) ==
    /\ DOMAIN public = {"value", "commitment"}
    /\ public.value = note.value
    /\ public.commitment = note.commitment

ProjectsEntry(e, entry) ==
    /\ DOMAIN e = {"note", "state", "nullifier"}
    /\ Projects(e.note, entry.note)
    /\ e.state = entry.state
    /\ e.nullifier = entry.nullifier

\* the keys of a JSON text, and its numbers in the order they are written
KeysOf(json) == {json[i].v : i \in {j \in DOMAIN json : json[j].t = "str"}}

NumbersOf(json) == SelectSeq(json, LAMBDA token : token.t = "num")

\* the text is an object of the two public fields of `note`
ProjectsJson(json, note) ==
    /\ KeysOf(json) = {ValueKey, CommitmentKey}
    /\ NumbersOf(json) = <<Num(Decimal(note.value))>>
                            \o [i \in DOMAIN note.commitment |-> Num(Decimal(note.commitment[i]))]

C22_PublicProjection ==
    [][/\ ret'.op \in {"get_note", "remove_note"} =>
            /\ ret'.val.some <=> ret'.arg[1] \in DOMAIN notes
            /\ ret'.val.some => ProjectsEntry(ret'.val.v, notes[ret'.arg[1]])
       /\ ret'.op = "list_notes" =>
            /\ {ret'.val.v[i][1] : i \in DOMAIN ret'.val.v} = DOMAIN notes
            /\ \A i \in DOMAIN ret'.val.v :
                  ProjectsEntry(ret'.val.v[i][2], notes[ret'.val.v[i][1]])
       /\ ret'.op = "uniffi_create_note" /\ ret'.res = Ok =>
            Projects(ret'.val.v, create_note(ret'.arg[1], ret'.arg[2]).note)
       /\ ret'.op = "SparkNote_serialize" => ProjectsJson(ret'.val.v, held.v)]_vars

\* list_notes has returned two entries, one of them Spent with its nullifier
C22_Witness ==
    /\ ret.op = "list_notes"
    /\ Len(ret.val.v) = 2
    /\ \E i \in DOMAIN ret.val.v :
          ret.val.v[i][2].state = "Spent" /\ ret.val.v[i][2].nullifier.some

(***************************************************************************)
(* C23  No exported operation of the binding surfaces (the UniFFI functions *)
(* of lib.rs, the wasm-bindgen exports of wasm.rs) returns the secret bytes *)
(* of a note: a note crosses a boundary as (value, commitment) only.        *)
(***************************************************************************)
C23_NoSecretAcrossBoundary ==
    [][/\ ret'.op \in {"WasmSparkNote_secret", "WasmSparkNote_commitment", "noteCommitment",
                       "generateNullifier", "uniffi_note_commitment"}
            => ret'.val.v # held.v.secret
       /\ ret'.op = "WasmSparkNote_value" => ret'.val.v = held.v.value
       /\ ret'.op = "toJSON" => ProjectsJson(ret'.val.v, held.v)
       /\ ret'.op = "createNote" => ~ret'.val.some
       /\ ret'.op = "uniffi_create_note" /\ ret'.res = Ok =>
            Projects(ret'.val.v, create_note(ret'.arg[1], ret'.arg[2]).note)
       /\ ret'.op = "uniffi_generate_nullifier" /\ ret'.res = Ok =>
            ret'.val.v # ret'.arg[1]]_vars

(***************************************************************************)
(* C24  Zeroization on release.  As claimed: a Secret's buffer is           *)
(* overwritten with zeros exactly once, when its owner releases it and not  *)
(* while a read is in progress, and once a Secret has been released or      *)
(* consumed (by into_inner too) no buffer the Secret type produced holds    *)
(* non-zero bytes.                                                          *)
(***************************************************************************)
AllZero(bytes) == \A i \in DOMAIN bytes : bytes[i] = 0

C24_NoBytesAfterRelease ==
    \A a \in DOMAIN heap :
        /\ heap[a].kind = "Secret" => heap[a].zeroized = (IF heap[a].live THEN 0 ELSE 1)
        /\ heap[a].reading => heap[a].live
        /\ (heap[a].kind = "Vec" \/ ~heap[a].live) => AllZero(heap[a].bytes)

(***************************************************************************)
(* C24 (amended)  Every Secret (a clone and the one inside a SparkNote      *)
(* included) has its own buffer overwritten with zeros exactly once, in the *)
(* step its owner releases it or into_inner consumes it, never while a read *)
(* of its bytes is in progress, and keeps its bytes until then; the vector  *)
(* into_inner returns is a copy that holds the secret's bytes and is never  *)
(* overwritten.                                                             *)
(***************************************************************************)
C24_ZeroizedOnRelease ==
    [][/\ \A a \in DOMAIN heap :
            /\ heap[a].kind = "Secret" =>
                 /\ heap'[a].zeroized # heap[a].zeroized <=> heap[a].live /\ ~heap'[a].live
                 /\ heap[a].live /\ ~heap'[a].live => ~heap[a].reading
                 /\ ~heap'[a].live => heap'[a].zeroized = 1 /\ AllZero(heap'[a].bytes)
                 /\ heap'[a].live => heap'[a].bytes = heap[a].bytes
            /\ heap[a].kind = "Vec" =>
                 heap'[a].bytes = heap[a].bytes /\ heap'[a].zeroized = 0
       /\ ret'.op = "Secret_into_inner" =>
            /\ ret'.val.v = heap[ret'.arg[1]].bytes
            /\ heap'[Len(heap')].kind = "Vec"
            /\ heap'[Len(heap')].bytes = heap[ret'.arg[1]].bytes]_vars

\* into_inner has consumed a Secret: its buffer holds zeros and the vector
\* it returned holds the bytes
C24_Witness ==
    /\ ret.op = "Secret_into_inner"
    /\ ~heap[ret.arg[1]].live
    /\ AllZero(heap[ret.arg[1]].bytes)
    /\ ret.val.v = Fill(2, MIN_SECRET_LENGTH)

(***************************************************************************)
(* C25  In every reachable state of a NoteManager, the nullifier recorded   *)
(* for an entry, if there is one, is the nullifier of the entry's own note: *)
(* generate_nullifier(note, note.secret).                                   *)
(***************************************************************************)
C25_RecordedNullifierIsOwn ==
    \A id \in DOMAIN notes :
        notes[id].nullifier.some =>
            notes[id].nullifier.v = generate_nullifier(notes[id].note, notes[id].note.secret)

(***************************************************************************)
(* C26  A registry entry is spent at most once: mark_note_as_spent returns  *)
(* Ok only for an entry that is Unspent (an entry that is Spent has had its *)
(* Ok and has put its one nullifier into the spent set), and then the spent *)
(* set grows by that one nullifier.                                         *)
(***************************************************************************)
C26_SpentAtMostOnce ==
    [][ret'.op = "mark_note_as_spent" /\ ret'.res = Ok =>
          /\ notes[ret'.arg[1]].state = "Unspent"
          /\ spent_nullifiers' = spent_nullifiers \cup {notes[ret'.arg[1]].nullifier.v}
          /\ Cardinality(spent_nullifiers') = Cardinality(spent_nullifiers) + 1]_vars

(***************************************************************************)
(* C27  mark_multiple_as_spent goes through the batch in order and stops at *)
(* the first element that is invalid or already spent (in the set before    *)
(* the call, or earlier in the batch): it returns that element's error, the *)
(* elements before it are recorded and none after it is.  With a first      *)
(* element that is already spent it returns AlreadySpent and records        *)
(* nothing.                                                                 *)
(***************************************************************************)
\* the positions of batch B at which the loop cannot go on
Stops(B, set) ==
    {i \in DOMAIN B : \/ validate_nullifier(B[i]) # Ok
                      \/ B[i] \in set
                      \/ \E j \in 1..(i - 1) : B[j] = B[i]}

C27_BatchStopsAtFirst ==
    [][ret'.op = "mark_multiple_as_spent" =>
          \A B \in {ret'.arg} : \A stops \in {Stops(B, spent_set)} :
             /\ stops = {} => ret'.res = Ok
             /\ stops # {} =>
                  \A k \in {CHOOSE i \in stops : \A j \in stops : i <= j} :
                     /\ ret'.res = IF validate_nullifier(B[k]) # Ok
                                   THEN validate_nullifier(B[k])
                                   ELSE AlreadySpent
                     /\ spent_set' = spent_set \cup {B[j] : j \in 1..(k - 1)}
             /\ (Len(B) >= 1 /\ B[1] \in spent_set /\ validate_nullifier(B[1]) = Ok) =>
                  ret'.res = AlreadySpent /\ spent_set' = spent_set]_vars

\* a batch [n1, n2] with n1 spent and n2 valid and unspent has been refused
C27_Witness ==
    /\ ret.op = "mark_multiple_as_spent"
    /\ ret.res = AlreadySpent
    /\ Len(ret.arg) = 2
    /\ ret.arg[1] \in spent_set
    /\ validate_nullifier(ret.arg[2]) = Ok
    /\ ret.arg[2] \notin spent_set

(***************************************************************************)
(* C28  When mark_multiple_as_spent(B, S) returns Ok, every element of B    *)
(* has 32 bytes, none was in S before the call, the elements are pairwise   *)
(* distinct, and S afterwards is S united with the elements of B, its size  *)
(* grown by the length of B; the empty batch returns Ok and leaves S as it  *)
(* was.                                                                     *)
(***************************************************************************)
C28_BatchOk ==
    [][ret'.op = "mark_multiple_as_spent" =>
          LET B == ret'.arg
          IN /\ ret'.res = Ok =>
                  /\ \A i \in DOMAIN B : Len(B[i]) = 32 /\ B[i] \notin spent_set
                  /\ \A i, j \in DOMAIN B : i # j => B[i] # B[j]
                  /\ spent_set' = spent_set \cup {B[i] : i \in DOMAIN B}
                  /\ Cardinality(spent_set') = Cardinality(spent_set) + Len(B)
             /\ Len(B) = 0 => ret'.res = Ok /\ spent_set' = spent_set]_vars

\* a batch of two has been recorded
C28_Witness ==
    /\ ret.op = "mark_multiple_as_spent"
    /\ ret.res = Ok
    /\ Len(ret.arg) = 2
    /\ {ret.arg[1], ret.arg[2]} \subseteq spent_set

(***************************************************************************)
(* C29  Double-spend prevention across identifiers: when an entry is Spent  *)
(* and an Unspent entry under another identifier holds a note of the same   *)
(* commitment with a nullifier generated with the same secret,              *)
(* mark_note_as_spent on the second returns AlreadySpent and leaves it      *)
(* Unspent, so at most one of the two is ever Spent.                        *)
(***************************************************************************)
\* entries a and b hold the same commitment and nullifiers of one secret
SameSpend(map, a, b) ==
    /\ map[a].note.commitment = map[b].note.commitment
    /\ map[a].nullifier.some
    /\ map[b].nullifier.some
    /\ \E secret \in SecretInputs :
          /\ map[a].nullifier.v = generate_nullifier(map[a].note, secret)
          /\ map[b].nullifier.v = generate_nullifier(map[b].note, secret)

C29_NoDoubleSpendAcrossIds ==
    [][\A first, second \in DOMAIN notes :
          (/\ first # second
           /\ notes[first].state = "Spent"
           /\ notes[second].state = "Unspent"
           /\ SameSpend(notes, first, second)
           /\ ret'.op = "mark_note_as_spent"
           /\ ret'.arg = <<second>>)
          => ret'.res = AlreadySpent /\ notes'[second].state = "Unspent"]_vars

(***************************************************************************)
(* C30  remove_note changes the note map only: the spent set is what it was *)
(* and every nullifier reported spent before is reported spent after, the   *)
(* removed entry's included; mark_note_as_spent on an entry whose           *)
(* nullifier is in the spent set (the same note added again under any       *)
(* identifier, with the same nullifier generated again) returns             *)
(* AlreadySpent and changes nothing.                                        *)
(***************************************************************************)
C30_RemoveNoteFrame ==
    [][/\ ret'.op = "remove_note" =>
            /\ notes' = MapRemove(notes, ret'.arg[1])
            /\ spent_nullifiers' = spent_nullifiers
            /\ spent_nullifier_count(self_next).val = spent_nullifier_count(self).val
            /\ \A n \in spent_nullifiers : NoteManager_is_nullifier_spent(self_next, n).val
       /\ (/\ ret'.op = "mark_note_as_spent"
           /\ ret'.arg[1] \in DOMAIN notes
           /\ notes[ret'.arg[1]].nullifier.some
           /\ notes[ret'.arg[1]].nullifier.v \in spent_nullifiers)
          => /\ ret'.res = AlreadySpent
             /\ notes' = notes
             /\ spent_nullifiers' = spent_nullifiers]_vars

\* the entry that was spent has been removed, the note is back under the
\* other identifier with the same nullifier, and its spend has been refused
C30_Witness ==
    /\ ret.op = "mark_note_as_spent"
    /\ ret.res = AlreadySpent
    /\ ever_spent # {}
    /\ ret.arg[1] \notin ever_spent
    /\ DOMAIN notes = {ret.arg[1]}
    /\ spent_nullifiers = {notes[ret.arg[1]].nullifier.v}
    /\ notes[ret.arg[1]].nullifier.v
           = generate_nullifier(notes[ret.arg[1]].note, notes[ret.arg[1]].note.secret)

(***************************************************************************)
(* C31  In every reachable state the entries in state Spent are at most    *)
(* spent_nullifier_count(), and spent_nullifier_count() is the number of   *)
(* mark_note_as_spent and add_spent_nullifier calls that have returned Ok. *)
(***************************************************************************)
C31_CountIsOkSpends ==
    /\ Cardinality(SpentIds(notes)) <= spent_nullifier_count(self).val
    /\ spent_nullifier_count(self).val = ok_spends

\* both kinds of spend have returned Ok, and a spent entry has been removed,
\* so the count is above the number of Spent entries
C31_Witness ==
    /\ ok_spends = 3
    /\ Cardinality(SpentIds(notes)) = 1
    /\ ever_spent = Ids
    /\ ret.op = "add_spent_nullifier"
    /\ ret.res = Ok

(***************************************************************************)
(* C32  A successful mark_note_as_spent(id) sets the state of entry id to  *)
(* Spent and adds that entry's recorded nullifier to the spent set, whose  *)
(* size grows by one; the entry's note and recorded nullifier and every    *)
(* other entry are unchanged.  A successful generate_nullifier_for_note    *)
(* changes only entry id's recorded nullifier: every note, every state and *)
(* the spent set are unchanged.                                            *)
(***************************************************************************)
C32_SpendFrame ==
    [][/\ (ret'.op = "mark_note_as_spent" /\ ret'.res = Ok) =>
            \A id \in {ret'.arg[1]} :
               /\ DOMAIN notes' = DOMAIN notes
               /\ notes'[id].state = "Spent"
               /\ notes'[id].note = notes[id].note
               /\ notes'[id].nullifier = notes[id].nullifier
               /\ \A other \in DOMAIN notes \ {id} : notes'[other] = notes[other]
               /\ spent_nullifiers' = spent_nullifiers \cup {notes[id].nullifier.v}
               /\ spent_nullifier_count(self_next).val
                      = spent_nullifier_count(self).val + 1
       /\ (ret'.op = "generate_nullifier_for_note" /\ ret'.res = Ok) =>
            \A id \in {ret'.arg[1]} :
               /\ DOMAIN notes' = DOMAIN notes
               /\ notes'[id].note = notes[id].note
               /\ notes'[id].state = notes[id].state
               /\ notes'[id].nullifier = ret'.val
               /\ \A other \in DOMAIN notes \ {id} : notes'[other] = notes[other]
               /\ spent_nullifiers' = spent_nullifiers]_vars

\* an entry has been spent while the other entry, whose nullifier was
\* generated before, is still Unspent and next to one nullifier added directly
C32_Witness ==
    /\ ret.op = "mark_note_as_spent"
    /\ ret.res = Ok
    /\ DOMAIN notes = Ids
    /\ notes[ret.arg[1]].state = "Spent"
    /\ \E other \in Ids \ {ret.arg[1]} :
          /\ notes[other].state = "Unspent"
          /\ notes[other].nullifier.some
    /\ Cardinality(spent_nullifiers) = 2

(***************************************************************************)
(* C33  On every sequence of spend requests given to both interfaces from  *)
(* empty sets, mark_as_spent and add_spent_nullifier return the same       *)
(* outcome with the same error code at every step, and after every step    *)
(* is_nullifier_spent on the legacy set and the manager's                  *)
(* is_nullifier_spent give the same answer for every byte string.          *)
(***************************************************************************)
C33_LegacyTypedEquivalent ==
    [][ret'.op = "spend_both" =>
          /\ ret'.res = ret'.val.v
          /\ \A b \in SpendRequests \cup SliceSamples :
                is_nullifier_spent(b, spent_set')
                    = NoteManager_is_nullifier_spent(self_next, b).val]_vars

\* a request has been accepted, a repeat refused and a malformed one
\* rejected by both, and both report two nullifiers spent
C33_Witness ==
    /\ ret.op = "spend_both"
    /\ ret.res = nullifier_error("WrongLength")
    /\ ret.val.v = nullifier_error("WrongLength")
    /\ Len(ret.arg[1]) = NULLIFIER_LENGTH + 1
    /\ Cardinality(spent_set) = 2
    /\ \A b \in spent_set :
          is_nullifier_spent(b, spent_set) /\ NoteManager_is_nullifier_spent(self, b).val

(***************************************************************************)
(* C34  uniffi_generate_nullifier(note, secret) returns Ok exactly when    *)
(* note.value is nonzero, the secret length is within 8..=1024 and the     *)
(* commitment computed from note.value and the secret equals               *)
(* note.commitment; then it returns the nullifier of that note and secret. *)
(* Otherwise it returns an error and no nullifier: a validation error, or  *)
(* OperationError when only the commitment differs.                        *)
(***************************************************************************)
C34_NullifierOnlyForOwnSecret ==
    ret.op = "uniffi_generate_nullifier" =>
        \A value \in {ret.arg[1]}, commitment \in {ret.arg[2]}, secret \in {ret.arg[3]} :
           \A valid \in {/\ value # 0
                         /\ Len(secret) >= MIN_SECRET_LENGTH
                         /\ Len(secret) <= MAX_SECRET_LENGTH} :
              /\ ret.res = Ok <=>
                     (valid /\ compute_commitment(value, secret) = commitment)
              /\ ret.res = Ok => ret.val = <<Blake3(commitment \o secret)>>
              /\ ret.res # Ok => ret.val = << >>
              /\ ~valid => ret.res.kind \in {"InvalidValue", "InvalidSecret"}
              /\ (valid /\ ret.res # Ok) => ret.res = OperationError

\* the longest secret allowed has recomputed the commitment of the note
C34_Witness ==
    /\ ret.op = "uniffi_generate_nullifier"
    /\ ret.res = Ok
    /\ Len(ret.val) = 1
    /\ Len(ret.arg[3]) = MAX_SECRET_LENGTH
    /\ ret.arg[2] = compute_commitment(ret.arg[1], ret.arg[3])

(***************************************************************************)
(* C35  create_note(value, secret) returns a note if and only if value is  *)
(* nonzero and the secret length is within 8..=1024; the value is checked  *)
(* before the secret, so with both invalid the error is InvalidValue/Zero; *)
(* on any error no note and no commitment is produced.                     *)
(***************************************************************************)
C35_CreateNoteValidates ==
    ret.op = "create_note" =>
        \A value \in {ret.arg[1]}, secret \in {ret.arg[2]} :
           \A secret_ok \in {Len(secret) >= MIN_SECRET_LENGTH
                               /\ Len(secret) <= MAX_SECRET_LENGTH} :
              /\ ret.res = Ok <=> (value # 0 /\ secret_ok)
              /\ ret.res = Ok =>
                     /\ Len(ret.val) = 3
                     /\ ret.val[1] = value
                     /\ Len(ret.val[2]) = 32
                     /\ ret.val[3] = secret
              /\ value = 0 => ret.res = invalid_value("Zero")
              /\ (value # 0 /\ ~secret_ok) => ret.res.kind = "InvalidSecret"
              /\ ret.res # Ok => ret.val = << >>

\* value 0 with a secret that is too long has been refused for the value,
\* and nothing has been returned
C35_Witness ==
    /\ ret.op = "create_note"
    /\ ret.arg[1] = 0
    /\ Len(ret.arg[2]) = MAX_SECRET_LENGTH + 1
    /\ ret.res = invalid_value("Zero")
    /\ ret.val = << >>

\* the number that eight big-endian bytes stand for (below 2^31, as every
\* number of the model)
FromBigEndian(bytes) ==
    bytes[5] * 16777216 + bytes[6] * 65536 + bytes[7] * 256 + bytes[8]

\* `input` is the tag, then `value` in 8 bytes, then the length of `secret`
\* in 8 bytes, then `secret`
HasLayout(input, value, secret) ==
    /\ Len(input) = 19 + 8 + 8 + Len(secret)
    /\ SubSeq(input, 1, 19) = DOMAIN_TAG
    /\ SubSeq(input, 20, 23) = <<0, 0, 0, 0>>
    /\ FromBigEndian(SubSeq(input, 20, 27)) = value
    /\ SubSeq(input, 28, 31) = <<0, 0, 0, 0>>
    /\ FromBigEndian(SubSeq(input, 28, 35)) = Len(secret)
    /\ \A i \in 1..Len(secret) : input[35 + i] = secret[i]

(***************************************************************************)
(* C36  The byte string hashed for a commitment is the tag                 *)
(* "SPARK_COMMITMENT_V1", then the value as 8 bytes big-endian, then the   *)
(* secret length as 8 bytes big-endian, then the secret bytes; two         *)
(* (value, secret) pairs give the same hashed byte string only if they are *)
(* equal, whatever the lengths of the secrets.                             *)
(***************************************************************************)
C36_EncodingInjective ==
    ret.op = "compute_commitment" =>
        /\ HasLayout(ret.val[1], ret.arg[1], ret.arg[2])
        /\ HasLayout(ret.val[2], ret.arg[3], ret.arg[4])
        /\ ret.val[1] = ret.val[2] =>
               /\ ret.arg[1] = ret.arg[3]
               /\ Len(ret.arg[2]) = Len(ret.arg[4])
               /\ \A i \in 1..Len(ret.arg[2]) : ret.arg[2][i] = ret.arg[4][i]

\* two pairs that differ only where the framing tells them apart: values
\* with the same low byte, and a secret that is a prefix of the other
C36_Witness ==
    /\ ret.op = "compute_commitment"
    /\ ret.arg[1] = 1
    /\ ret.arg[3] = 257
    /\ Len(ret.arg[2]) = 1
    /\ Len(ret.arg[4]) = 2
    /\ ret.arg[4][1] = ret.arg[2][1]
    /\ ret.val[1] # ret.val[2]

\* the Secret that the deserialization of this step has put on the heap
Deserialized(step) == heap'[step.val.v[1]]

(***************************************************************************)
(* C37  Deserializing a Secret from any well-formed byte payload succeeds  *)
(* and yields the empty secret whatever the payload holds, so serializing  *)
(* a Secret and deserializing the result never gives the bytes of the      *)
(* original, and create_note rejects such a secret as InvalidSecret/Empty. *)
(***************************************************************************)
C37_DeserializeLosesSecret ==
    [][/\ (ret'.op = "Secret_deserialize" /\ ret'.arg[1] \in WellFormedPayloads) =>
            /\ ret'.res = Ok
            /\ Deserialized(ret').kind = "Secret"
            /\ Len(Secret_as_bytes(Deserialized(ret'))) = 0
            /\ \A a \in LiveSecrets :
                  ret'.arg[1] = Secret_serialize(heap[a]) =>
                      Secret_as_bytes(Deserialized(ret')) # Secret_as_bytes(heap[a])
       /\ (ret'.op = "SparkNote_new" /\ Len(Secret_as_bytes(heap[ret'.arg[1]])) = 0) =>
            ret'.res = invalid_secret("Empty")]_vars

(***************************************************************************)
(* C37 (amended)  Deserializing a Secret from any well-formed byte payload *)
(* succeeds and yields the empty secret whatever the payload holds, so     *)
(* serializing a Secret and deserializing the result never gives the bytes *)
(* of a non-empty original (an empty one comes back empty), and            *)
(* create_note makes no note from such a secret: it rejects it as          *)
(* InvalidSecret/Empty when the value is nonzero and as InvalidValue/Zero  *)
(* when the value is zero.                                                 *)
(***************************************************************************)
C37_DeserializeYieldsEmpty ==
    [][/\ (ret'.op = "Secret_deserialize" /\ ret'.arg[1] \in WellFormedPayloads) =>
            /\ ret'.res = Ok
            /\ Deserialized(ret').kind = "Secret"
            /\ Len(Secret_as_bytes(Deserialized(ret'))) = 0
            /\ \A a \in LiveSecrets :
                  (/\ ret'.arg[1] = Secret_serialize(heap[a])
                   /\ Len(Secret_as_bytes(heap[a])) # 0) =>
                      Secret_as_bytes(Deserialized(ret')) # Secret_as_bytes(heap[a])
       /\ (ret'.op = "SparkNote_new" /\ Len(Secret_as_bytes(heap[ret'.arg[1]])) = 0) =>
            ret'.res = IF ret'.arg[2] = 0
                       THEN invalid_value("Zero")
                       ELSE invalid_secret("Empty")]_vars

\* a Secret of eight bytes is alive, the payload its serialization writes
\* has been deserialized, and the Secret that came back is empty
C37_Witness ==
    /\ ret.op = "Secret_deserialize"
    /\ ret.res = Ok
    /\ ret.arg[1] = serialize_bytes(<< >>)
    /\ ret.val.v = <<2>>
    /\ heap[1].kind = "Secret" /\ heap[1].live
    /\ Len(Secret_as_bytes(heap[1])) = MIN_SECRET_LENGTH
    /\ ret.arg[1] = Secret_serialize(heap[1])
    /\ Len(Secret_as_bytes(heap[2])) = 0

====
